---- MODULE Spec2Model ----
(***************************************************************************)
(* TRV Control: one room (TRVClimate) driving several radiator valves.     *)
(*                                                                         *)
(* Temperatures are integers in tenths of a degree Celsius (32.0 C = 320). *)
(* A nullable value (Python None) is a set: {} for None, {v} for v.        *)
(* Valve positions are integers in percent.  int(x) of a non-negative      *)
(* quotient is integer division; the input sets below are chosen so that   *)
(* the exact quotient and the double-precision one truncate alike.         *)
(***************************************************************************)
EXTENDS Integers, Sequences, FiniteSets, TLC

VARIABLES
    started,              \* async_added_to_hass has run
    hvac_mode,            \* _attr_hvac_mode
    saved_hvac_mode,      \* _saved_hvac_mode
    window_open,          \* _window_open
    current_temperature,  \* _attr_current_temperature (nullable)
    target_temperature,   \* _attr_target_temperature
    night_saving_enabled, \* _night_saving_enabled
    night_schedule,       \* _night_schedule: per weekday enabled, start, end, reduction
    trv_states,           \* _trv_states: per valve return_temp, timestamp, position, flag
    trvs,                 \* _trvs: per valve configuration
    config_entry,         \* the stored configuration entry: data and options
    valve_channel,        \* per valve: how a position command reaches the actuator
    hass_states,          \* per valve: what the state registry holds about its actuator
    temp_history,         \* _temp_history: (timestamp, temperature) samples, oldest first
    tasks,                \* tasks created with hass.async_create_task, oldest first
    now,                  \* wall clock, minutes since Monday 00:00
    cmds,                 \* service calls issued by the most recent handler, in order
    last                  \* which handler ran most recently, and what its evaluations saw

vars == <<started, hvac_mode, saved_hvac_mode, window_open, current_temperature,
          target_temperature, night_saving_enabled, night_schedule, trv_states, trvs,
          config_entry, valve_channel, hass_states, temp_history, tasks,
          now, cmds, last>>

-----------------------------------------------------------------------------
(* Program constants *)

DEFAULT_RETURN_TEMP_CLOSE == 320
DEFAULT_RETURN_TEMP_OPEN == 300
DEFAULT_MAX_VALVE_POSITION == 100
DEFAULT_ANTICIPATORY_OFFSET == 1
DEFAULT_PROPORTIONAL_BAND == 20
DEFAULT_TARGET_TEMPERATURE == 200
MIN_TEMP == 50
MAX_TEMP == 300
TEMP_BUFFER == 10
DEAD_BAND == 10
DEFAULT_TEMP_HISTORY_SIZE == 30

HEAT == "heat"
OFF == "off"
HVACModeValues == {"off", "heat", "cool", "heat_cool", "auto", "dry", "fan_only"}

None == {}
Some(v) == {v}
Val(s) == CHOOSE x \in s : TRUE

\* Times of day are minutes after midnight (06:00 = 360).
DAY_NAMES == <<"monday", "tuesday", "wednesday", "thursday", "friday",
               "saturday", "sunday">>

DEFAULT_NIGHT_SCHEDULE ==
    [d \in {DAY_NAMES[i] : i \in 1..7} |->
        [enabled |-> FALSE, start_time |-> 0, end_time |-> 360,
         temp_reduction |-> -20]]

Max2(a, b) == IF a >= b THEN a ELSE b
Min2(a, b) == IF a <= b THEN a ELSE b

TRV_LIST == <<"trv1", "trv2">>
TRV_IDS == {TRV_LIST[i] : i \in 1..Len(TRV_LIST)}

\* What hass.states.get returns about one actuator: the state of
\* sensor.<device>_running_state ("" when the entity is absent), the climate
\* entity's attributes running_state and hvac_action (nullable; the climate
\* entity itself may be absent), and whether select.<device>_sensor exists.
ActuatorEntities(sensor, climate, select) ==
    [running_state_sensor |-> sensor, climate |-> climate, sensor_select |-> select]

ClimateAttributes(running_state, hvac_action) ==
    [running_state |-> running_state, hvac_action |-> hvac_action]

NO_ENTITIES == [t \in TRV_IDS |-> ActuatorEntities("", None, FALSE)]

-----------------------------------------------------------------------------
(* Bounds of the model *)

MaxTasks == 1
MaxClock == 70
ClockStep == 35

\* Values the sensors, the users and the actuators supply.  The second valve
\* sees a single return temperature and no administrative call, which keeps
\* the product of the two valves' states small.
RoomTemps == {190}
TargetTemps == {200, 220}
ReturnEvents == {<<TRV_LIST[1], 270>>, <<TRV_LIST[1], 330>>, <<TRV_LIST[2], 270>>}
PositionCalls == {<<TRV_LIST[1], 100>>}
ThresholdCalls == {<<TRV_LIST[1], None, None, Some(5)>>}
TrvReportedStates == {"heat", "off", "unavailable"}
WindowStates == {"on", "off"}
RestoredTargets == {None, Some(220)}
RestoredNightSaving == {FALSE}
InitialRooms == {None, Some(190)}
InitialReturns == {[t \in TRV_IDS |-> None],
                   [t \in TRV_IDS |-> IF t = TRV_LIST[1] THEN Some(270) ELSE Some(330)]}
InitialWindowStates == {"absent", "on", "off"}
ChannelAssignments ==
    { [t \in TRV_IDS |-> IF t = TRV_LIST[1] THEN "number" ELSE "mqtt"] }

\* Inputs of the valve-control specification: one valve with a wide range of
\* readings and configurations, evaluated directly.
ControlRooms == {190, 200, 215, 225, 230}
ControlTargets == {200, 230}
ControlReturns == {270, 310, 315, 319, 320, 330}
ControlPositions == {0, 55}
ControlMaxPositions == {0, 5, 50, 100}
ControlGains == {<<20, 1>>, <<25, 5>>, <<5, 0>>}
ControlConfigs ==
    {[return_temp_close |-> DEFAULT_RETURN_TEMP_CLOSE,
                   return_temp_open |-> DEFAULT_RETURN_TEMP_OPEN, max_valve_position |-> m,
      proportional_band |-> g[1], pid_anticipatory_offset |-> g[2],
      night_schedule |-> DEFAULT_NIGHT_SCHEDULE] :
        m \in ControlMaxPositions, g \in ControlGains}
ControlChannels == {"number", "none"}

-----------------------------------------------------------------------------
(* Night setback *)

\* The entity's _night_schedule: set to the default schedule at construction
\* and written by no handler.
_night_schedule == night_schedule

TodayName(t) == DAY_NAMES[((t \div 1440) % 7) + 1]
TimeOfDay(t) == t % 1440

\* Variant: the window is always taken as a same-day interval.
night_time_without_wrap(enabled, schedule, t) ==
    IF ~enabled THEN FALSE
    ELSE LET today == schedule[TodayName(t)]
             cur == TimeOfDay(t)
         IN  IF ~today.enabled THEN FALSE
             ELSE today.start_time <= cur /\ cur <= today.end_time

_is_night_saving_time(enabled, schedule, t) ==
    IF ~enabled THEN FALSE
    ELSE LET today == schedule[TodayName(t)]
             cur == TimeOfDay(t)
         IN  IF ~today.enabled THEN FALSE
             ELSE IF today.start_time < today.end_time
                  THEN today.start_time <= cur /\ cur <= today.end_time
                  ELSE cur >= today.start_time \/ cur <= today.end_time

\* Variant: the adjusted target is not limited to 5..30 degrees.
adjusted_target_without_clamp(target, enabled, schedule, t) ==
    IF _is_night_saving_time(enabled, schedule, t)
    THEN target + schedule[TodayName(t)].temp_reduction
    ELSE target

_get_adjusted_target_temperature(target, enabled, schedule, t) ==
    IF _is_night_saving_time(enabled, schedule, t)
    THEN Max2(MIN_TEMP, Min2(MAX_TEMP, target + schedule[TodayName(t)].temp_reduction))
    ELSE target

\* Variant: the mode is looked at before the window.
heating_status_mode_first(win, mode, room, target, night_active) ==
    IF mode = OFF THEN "off"
    ELSE IF win THEN "window_open"
    ELSE IF room = None THEN "no_sensor"
    ELSE IF target = None THEN "no_target"
    ELSE IF Val(room) >= Val(target)
         THEN (IF night_active THEN "target_reached_night_saving" ELSE "target_reached")
         ELSE "heating"

\* _determine_heating_status; target is the night-adjusted target (nullable)
\* and night_active the flag _get_adjusted_target_temperature has just stored.
_determine_heating_status(win, mode, room, target, night_active) ==
    IF win THEN "window_open"
    ELSE IF mode = OFF THEN "off"
    ELSE IF room = None THEN "no_sensor"
    ELSE IF target = None THEN "no_target"
    ELSE IF Val(room) >= Val(target)
         THEN (IF night_active THEN "target_reached_night_saving" ELSE "target_reached")
         ELSE "heating"

\* _determine_trv_status_with_reason; target is the night-adjusted target and
\* the reason is the subject the message names.
_determine_trv_status_with_reason(mode, win, room, target, return_temp, cfg) ==
    IF mode = OFF THEN [status |-> "off", reason |-> "hvac_mode"]
    ELSE IF win THEN [status |-> "window_open", reason |-> "window"]
    ELSE IF return_temp = None THEN [status |-> "no_sensor", reason |-> "return_sensor"]
    ELSE IF Val(return_temp) >= cfg.return_temp_close
         THEN [status |-> "return_high", reason |-> "return_temp"]
    ELSE IF Val(return_temp) >= cfg.return_temp_close - TEMP_BUFFER
         THEN IF room # None /\ target # None /\ Val(room) >= Val(target)
              THEN [status |-> "target_reached", reason |-> "buffer_zone"]
              ELSE [status |-> "conservative_heating", reason |-> "near_threshold"]
    ELSE IF room # None /\ target # None /\ Val(room) >= Val(target)
         THEN [status |-> "target_reached", reason |-> "safe_zone"]
         ELSE [status |-> "heating", reason |-> "safe_zone"]

-----------------------------------------------------------------------------
(* Valve control *)

\* Variant: the clamp to the maximum is missing.
proportional_without_clamp(room_temp, target_temp, anticipatory_offset, max_valve_position, proportional_band) ==
    LET effective_diff == (target_temp - room_temp) - anticipatory_offset
    IN  IF effective_diff <= 0 THEN 0
        ELSE LET raw == (effective_diff * max_valve_position) \div proportional_band
             IN  IF raw < DEAD_BAND THEN 0 ELSE raw

\* Variant: the anticipatory offset is added instead of subtracted.
proportional_offset_added(room_temp, target_temp, anticipatory_offset, max_valve_position, proportional_band) ==
    LET effective_diff == (target_temp - room_temp) + anticipatory_offset
    IN  IF effective_diff <= 0 THEN 0
        ELSE LET raw == (effective_diff * max_valve_position) \div proportional_band
                 clamped == Max2(0, Min2(max_valve_position, raw))
             IN  IF clamped < DEAD_BAND THEN 0 ELSE clamped

\* Variant: the difference is taken as room minus target.
proportional_reversed(room_temp, target_temp, anticipatory_offset, max_valve_position, proportional_band) ==
    LET effective_diff == (room_temp - target_temp) - anticipatory_offset
    IN  IF effective_diff <= 0 THEN 0
        ELSE LET raw == (effective_diff * max_valve_position) \div proportional_band
                 clamped == Max2(0, Min2(max_valve_position, raw))
             IN  IF clamped < DEAD_BAND THEN 0 ELSE clamped

\* int((effective_diff / proportional_band) * max_valve_position), clamped,
\* with positions below 10 snapped to 0.
_calculate_proportional_valve_position(room_temp, target_temp, anticipatory_offset, max_valve_position, proportional_band) ==
    LET temp_diff == target_temp - room_temp
        effective_diff == temp_diff - anticipatory_offset
    IN  IF effective_diff <= 0 THEN 0
        ELSE LET raw == (effective_diff * max_valve_position) \div proportional_band
                 clamped == Max2(0, Min2(max_valve_position, raw))
             IN  IF clamped < DEAD_BAND THEN 0 ELSE clamped

\* Maximum the proportional formula may reach: halved and scaled by the margin
\* inside the buffer zone below the close threshold, never under 10.
effective_max_valve(return_temp, close_threshold, max_valve_position) ==
    IF return_temp >= close_threshold - TEMP_BUFFER
    THEN Max2(10, (max_valve_position * (close_threshold - return_temp)) \div (2 * TEMP_BUFFER))
    ELSE max_valve_position

\* Position used when the room temperature is unknown.
conservative_position(return_temp, close_threshold, max_valve_position) ==
    IF return_temp >= close_threshold - TEMP_BUFFER
    THEN Max2(10, (max_valve_position * (close_threshold - return_temp) * 3) \div (10 * TEMP_BUFFER))
    ELSE (max_valve_position * 7) \div 10

\* Variant: the close threshold is compared with > instead of >=.
desired_position_strict(return_temp, room, target_temp, cfg) ==
    IF return_temp > cfg.return_temp_close THEN 0
    ELSE IF room # None
         THEN _calculate_proportional_valve_position(
                  Val(room), target_temp, cfg.pid_anticipatory_offset,
                  effective_max_valve(return_temp, cfg.return_temp_close,
                                      cfg.max_valve_position),
                  cfg.proportional_band)
         ELSE conservative_position(return_temp, cfg.return_temp_close,
                                    cfg.max_valve_position)

\* The position _async_control_valve wants for a valve whose return
\* temperature is known, with the window closed and the mode not OFF.
desired_position(return_temp, room, target_temp, cfg) ==
    IF return_temp >= cfg.return_temp_close THEN 0
    ELSE IF room # None
         THEN _calculate_proportional_valve_position(
                  Val(room), target_temp, cfg.pid_anticipatory_offset,
                  effective_max_valve(return_temp, cfg.return_temp_close,
                                      cfg.max_valve_position),
                  cfg.proportional_band)
         ELSE conservative_position(return_temp, cfg.return_temp_close,
                                    cfg.max_valve_position)

\* Service calls made by _async_set_valve_position over the valve's channel.
position_commands(channel, t, position) ==
    IF channel = "number"
    THEN <<[kind |-> "number.set_value", trv |-> t, val |-> position]>>
    ELSE IF channel = "mqtt"
         THEN <<[kind |-> "mqtt.publish", trv |-> t, val |-> position]>>
         ELSE <<>>

\* Variant: the position is recorded for every valve of the room.
set_valve_position_for_all(ts, t, position) ==
    [states |-> [u \in DOMAIN ts |-> [ts[u] EXCEPT !.valve_position = position]],
     cmds |-> position_commands(valve_channel[t], t, position)]

\* _async_set_valve_position: record the position, then try to deliver it.
_async_set_valve_position(ts, t, position) ==
    [states |-> [ts EXCEPT ![t].valve_position = position],
     cmds |-> position_commands(valve_channel[t], t, position)]

\* Variant: the window flag is not looked at.
control_valve_ignoring_window(ts, cfgs, t, win, mode, room, target) ==
    IF ts[t].return_temp = None THEN [states |-> ts, cmds |-> <<>>]
    ELSE IF mode = OFF THEN [states |-> ts, cmds |-> <<>>]
    ELSE LET desired == desired_position(Val(ts[t].return_temp), room, target, cfgs[t])
         IN  IF ts[t].valve_position # desired
             THEN [states |-> [ts EXCEPT ![t].valve_position = desired,
                                         ![t].valve_control_active = TRUE],
                   cmds |-> position_commands(valve_channel[t], t, desired)]
             ELSE [states |-> ts, cmds |-> <<>>]

\* Variant: the position is sent whether or not it differs from the recorded one.
control_valve_always_sends(ts, cfgs, t, win, mode, room, target) ==
    IF ts[t].return_temp = None THEN [states |-> ts, cmds |-> <<>>]
    ELSE IF win \/ mode = OFF THEN [states |-> ts, cmds |-> <<>>]
    ELSE LET adjusted == _get_adjusted_target_temperature(
                             target, night_saving_enabled, _night_schedule, now)
             desired == desired_position(Val(ts[t].return_temp), room, adjusted, cfgs[t])
             r == _async_set_valve_position(ts, t, desired)
         IN  [states |-> [r.states EXCEPT ![t].valve_control_active = TRUE],
              cmds |-> r.cmds]

\* _async_control_valve for valve t on valve states ts with configuration
\* cfgs, as seen with the given window flag, mode, room and stored target.
_async_control_valve(ts, cfgs, t, win, mode, room, target) ==
    IF ts[t].return_temp = None THEN [states |-> ts, cmds |-> <<>>]
    ELSE IF win \/ mode = OFF THEN [states |-> ts, cmds |-> <<>>]
    ELSE LET adjusted == _get_adjusted_target_temperature(
                             target, night_saving_enabled, _night_schedule, now)
             desired == desired_position(Val(ts[t].return_temp), room, adjusted, cfgs[t])
         IN  IF ts[t].valve_position # desired
             THEN LET r == _async_set_valve_position(ts, t, desired)
                  IN  [states |-> [r.states EXCEPT ![t].valve_control_active = TRUE],
                       cmds |-> r.cmds]
             ELSE [states |-> ts, cmds |-> <<>>]

-----------------------------------------------------------------------------
(* Idle nudge *)

\* str.lower() on the values the actuators report.
Lower(s) == IF s = "Idle" THEN "idle" ELSE IF s = "Heating" THEN "heating" ELSE s

SelectOption(t, option) == [kind |-> "sensor_select", trv |-> t, val |-> option]

\* The lookup loop of _async_nudge_trv_if_idle: the running-state sensor is
\* asked first and ends the loop when it has a state; otherwise the climate
\* entity is kept as trv_state and its running_state attribute is taken.
nudge_lookup(e) ==
    IF e.running_state_sensor # ""
    THEN [running_state |-> Some(e.running_state_sensor), trv_state |-> None]
    ELSE IF e.climate # None
         THEN [running_state |-> Val(e.climate).running_state, trv_state |-> e.climate]
         ELSE [running_state |-> None, trv_state |-> None]

should_nudge(e) ==
    LET l == nudge_lookup(e)
    IN  IF l.running_state # None /\ Lower(Val(l.running_state)) = "idle" THEN TRUE
        ELSE IF l.trv_state # None
             THEN LET hvac_action == Val(l.trv_state).hvac_action
                  IN  hvac_action # None /\ Lower(Val(hvac_action)) = "idle"
             ELSE FALSE

\* Variant: the two selections are issued in the other order.
nudge_external_first(hs, t) ==
    IF should_nudge(hs[t]) /\ hs[t].sensor_select
    THEN <<SelectOption(t, "external"), SelectOption(t, "internal")>>
    ELSE <<>>

\* _async_nudge_trv_if_idle: the service calls it makes for valve t.
_async_nudge_trv_if_idle(hs, t) ==
    IF should_nudge(hs[t]) /\ hs[t].sensor_select
    THEN <<SelectOption(t, "internal"), SelectOption(t, "external")>>
    ELSE <<>>

-----------------------------------------------------------------------------
(* The configuration entry *)

\* The entry as the handlers see it: data_trvs is data[CONF_TRVS] (None when
\* the key is missing), data_rooms the record of this room in data[CONF_ROOMS]
\* and options_rooms the record of this room in options[CONF_ROOMS]; a rooms
\* list is None when its key is missing, Some(None) when it has no record of
\* this room and Some(Some(cfgs)) when it has one holding the valves' cfgs.
ConfigEntry(data_trvs, data_rooms, options_rooms) ==
    [data_trvs |-> data_trvs, data_rooms |-> data_rooms, options_rooms |-> options_rooms]

\* What the configuration flow creates: the valves directly in data.
FlowEntry(cfgs) == ConfigEntry(Some(cfgs), None, None)

\* What the rooms-list format holds, in data or in options.
RoomsDataEntry(cfgs) == ConfigEntry(None, Some(Some(cfgs)), None)
RoomsOptionsEntry(cfgs) == ConfigEntry(None, None, Some(Some(cfgs)))

\* The rooms list of an entry: options first, then data, then empty.
entry_rooms(entry) ==
    IF entry.options_rooms # None THEN Val(entry.options_rooms)
    ELSE IF entry.data_rooms # None THEN Val(entry.data_rooms)
    ELSE None

\* async_setup_entry: the valve configurations a reload builds the room from
\* (None: no room is built).
setup_entry_trvs(entry) ==
    IF entry.data_trvs # None THEN entry.data_trvs ELSE entry_rooms(entry)

\* _save_config: the room's record in the rooms list, if there is one, gets a
\* copy of the valves' configurations; the list is stored in the options.
_save_config(entry, cfgs) ==
    [entry EXCEPT !.options_rooms =
        Some(IF entry_rooms(entry) # None THEN Some(cfgs) ELSE None)]

-----------------------------------------------------------------------------
(* Sensor states as text.  A state is a sequence of characters; float() is   *)
(* modelled for a sign, the words nan, inf and infinity, and decimal         *)
(* numerals with at most one fractional digit (exponents, underscores and    *)
(* surrounding blanks are not among the states drawn).                       *)

\* float('nan') and float('inf') in the integer encoding of temperatures.
NAN == 1000001
INF == 1000000

DigitChars == <<"0", "1", "2", "3", "4", "5", "6", "7", "8", "9">>
IsDigit(c) == \E i \in 1..10 : DigitChars[i] = c
DigitValue(c) == (CHOOSE i \in 1..10 : DigitChars[i] = c) - 1
AllDigits(w) == \A i \in 1..Len(w) : IsDigit(w[i])

\* The value of a sequence of digits.
RECURSIVE DigitsValue(_)
DigitsValue(w) ==
    IF w = <<>> THEN 0
    ELSE 10 * DigitsValue(SubSeq(w, 1, Len(w) - 1)) + DigitValue(w[Len(w)])

\* An unsigned numeral in tenths, or None when float() raises ValueError.
unsigned_float(w) ==
    IF w \in {<<"n", "a", "n">>, <<"N", "a", "N">>} THEN Some(NAN)
    ELSE IF w \in {<<"i", "n", "f">>, <<"I", "n", "f">>} THEN Some(INF)
    ELSE IF \E i \in 1..Len(w) : w[i] = "."
    THEN LET dot == CHOOSE i \in 1..Len(w) : w[i] = "." /\ \A j \in 1..(i - 1) : w[j] # "."
             whole == SubSeq(w, 1, dot - 1)
             frac == SubSeq(w, dot + 1, Len(w))
         IN  IF AllDigits(whole) /\ AllDigits(frac) /\ Len(whole) + Len(frac) > 0
                /\ Len(frac) <= 1
             THEN Some(10 * DigitsValue(whole) + DigitsValue(frac))
             ELSE None
    ELSE IF w # <<>> /\ AllDigits(w) THEN Some(10 * DigitsValue(w))
    ELSE None

\* float(text) for a sensor state.
float(text) ==
    IF text # <<>> /\ text[1] \in {"-", "+"}
    THEN LET u == unsigned_float(Tail(text))
         IN  IF u = None \/ u = Some(NAN) \/ text[1] = "+" THEN u
             ELSE Some(0 - Val(u))
    ELSE unsigned_float(text)

-----------------------------------------------------------------------------
(* Temperature history *)

Sample(timestamp, temperature) == [time |-> timestamp, temp |-> temperature]

\* The last n elements of sequence h (h[-n:] for 0 < n).
LastN(h, n) == IF Len(h) <= n THEN h ELSE SubSeq(h, Len(h) - n + 1, Len(h))

\* _update_temperature_history: append, then keep the last N readings.
\* Variant: a full history keeps its oldest samples and drops the new one.
update_history_keep_oldest(history, temperature, timestamp) ==
    IF Len(history) >= DEFAULT_TEMP_HISTORY_SIZE THEN history
    ELSE Append(history, Sample(timestamp, temperature))

_update_temperature_history(history, temperature, timestamp) ==
    LET appended == Append(history, Sample(timestamp, temperature))
    IN  IF Len(appended) > DEFAULT_TEMP_HISTORY_SIZE
        THEN LastN(appended, DEFAULT_TEMP_HISTORY_SIZE)
        ELSE appended

\* The history of an entity whose only room reading so far is room.
RECENT_READINGS == 10

\* A rate in tenths of a degree per hour, as the fraction num / den.
Rate(num, den) == [num |-> num, den |-> den]

\* Variant: the rate is taken over the whole history.
heating_rate_whole_history(history) ==
    IF Len(history) < 2 THEN Rate(0, 1)
    ELSE LET time_span == history[Len(history)].time - history[1].time
             temp_change == history[Len(history)].temp - history[1].temp
         IN  IF time_span <= 0 THEN Rate(0, 1) ELSE Rate(60 * temp_change, time_span)

\* time_span is in minutes here and in hours in the code, hence the 60.
_calculate_heating_rate(history) ==
    IF Len(history) < 2 THEN Rate(0, 1)
    ELSE LET recent == LastN(history, RECENT_READINGS)
             time_span == recent[Len(recent)].time - recent[1].time
             temp_change == recent[Len(recent)].temp - recent[1].temp
         IN  IF Len(recent) < 2 \/ time_span <= 0 THEN Rate(0, 1)
             ELSE Rate(60 * temp_change, time_span)

first_reading_history(room) ==
    IF room = None THEN <<>> ELSE <<Sample(0, Val(room))>>

-----------------------------------------------------------------------------
(* Handlers *)

NoEval == [op |-> "", arg |-> "", evald |-> {}, win |-> FALSE, mode |-> ""]

Ran(op, arg) == [NoEval EXCEPT !.op = op, !.arg = arg]

RanEval(op, arg, evald) ==
    [op |-> op, arg |-> arg, evald |-> evald, win |-> window_open, mode |-> hvac_mode]

Task(type, arg, temp) == [type |-> type, arg |-> arg, temp |-> temp]

\* Evaluate the valves of list l, in order, starting from valve states ts.
RECURSIVE control_valves(_, _, _, _, _, _, _)
control_valves(l, ts, cfgs, win, mode, room, target) ==
    IF l = <<>> THEN [states |-> ts, cmds |-> <<>>]
    ELSE LET r == _async_control_valve(ts, cfgs, Head(l), win, mode, room, target)
             rest == control_valves(Tail(l), r.states, cfgs, win, mode, room, target)
         IN  [states |-> rest.states, cmds |-> r.cmds \o rest.cmds]

\* Commands of _async_send_room_temperature_to_all_trvs: per valve, switch
\* the sensor source to external, then push the value.
RECURSIVE room_temperature_commands(_, _)
room_temperature_commands(l, temperature) ==
    IF l = <<>> THEN <<>>
    ELSE <<[kind |-> "sensor_select", trv |-> Head(l), val |-> "external"],
           [kind |-> "external_temperature", trv |-> Head(l), val |-> temperature]>>
         \o room_temperature_commands(Tail(l), temperature)

\* Commands of the target re-send of _async_update_trv_temperature.
RECURSIVE target_temperature_commands(_, _, _)
target_temperature_commands(l, ts, target) ==
    IF l = <<>> THEN <<>>
    ELSE (IF ts[Head(l)].valve_position > 0
          THEN <<[kind |-> "climate.set_temperature", trv |-> Head(l), val |-> target]>>
          ELSE <<>>)
         \o target_temperature_commands(Tail(l), ts, target)

_async_update_trv_temperature(room, mode, ts, target) ==
    IF room # None
    THEN room_temperature_commands(TRV_LIST, Val(room))
         \o (IF mode = HEAT THEN target_temperature_commands(TRV_LIST, ts, target)
             ELSE <<>>)
    ELSE <<>>

RECURSIVE hvac_mode_commands(_, _)
hvac_mode_commands(l, mode) ==
    IF l = <<>> THEN <<>>
    ELSE <<[kind |-> "climate.set_hvac_mode", trv |-> Head(l), val |-> mode]>>
         \o hvac_mode_commands(Tail(l), mode)

\* Variant: the window is not looked at.
set_hvac_mode_unguarded(mode) ==
    /\ hvac_mode' = mode
    /\ cmds' = hvac_mode_commands(TRV_LIST, mode)

\* Variant: the valves are told in reverse order, the last one twice.
set_hvac_mode_reversed(mode) ==
    IF mode # OFF /\ window_open
    THEN /\ cmds' = <<>>
         /\ UNCHANGED hvac_mode
    ELSE /\ hvac_mode' = mode
         /\ cmds' = [i \in 1..Len(TRV_LIST) |->
                        [kind |-> "climate.set_hvac_mode",
                         trv |-> TRV_LIST[Max2(2, Len(TRV_LIST) + 1 - i)], val |-> mode]]

\* async_set_hvac_mode: refused while the window is open unless turning off.
async_set_hvac_mode(mode) ==
    IF mode # OFF /\ window_open
    THEN /\ cmds' = <<>>
         /\ UNCHANGED hvac_mode
    ELSE /\ hvac_mode' = mode
         /\ cmds' = hvac_mode_commands(TRV_LIST, mode)

Init ==
    /\ started = FALSE
    /\ hvac_mode = HEAT
    /\ saved_hvac_mode = HEAT
    /\ window_open = FALSE
    /\ current_temperature = None
    /\ target_temperature = DEFAULT_TARGET_TEMPERATURE
    /\ night_saving_enabled = FALSE
    /\ night_schedule = DEFAULT_NIGHT_SCHEDULE
    /\ trv_states = [t \in TRV_IDS |->
                        [return_temp |-> None, return_temp_last_updated |-> None,
                         valve_position |-> 0, valve_control_active |-> FALSE]]
    /\ trvs = [t \in TRV_IDS |->
                  [return_temp_close |-> DEFAULT_RETURN_TEMP_CLOSE,
                   return_temp_open |-> DEFAULT_RETURN_TEMP_OPEN,
                   max_valve_position |-> IF t = TRV_LIST[1] THEN DEFAULT_MAX_VALVE_POSITION ELSE 80,
                   proportional_band |-> DEFAULT_PROPORTIONAL_BAND,
                   pid_anticipatory_offset |-> DEFAULT_ANTICIPATORY_OFFSET,
                   night_schedule |-> DEFAULT_NIGHT_SCHEDULE]]
    /\ valve_channel \in ChannelAssignments
    /\ hass_states = NO_ENTITIES
    /\ temp_history = first_reading_history(current_temperature)
    /\ config_entry = FlowEntry(trvs)
    /\ tasks = <<>>
    /\ now = 0
    /\ cmds = <<>>
    /\ last = Ran("init", "")

\* async_state_changed, room temperature sensor.
\* Variant: a changed room temperature also re-evaluates every valve.
room_change_reevaluates(v) ==
    /\ started
    /\ IF Some(v) # current_temperature
       THEN /\ Len(tasks) < MaxTasks
            /\ current_temperature' = Some(v)
            /\ temp_history' = _update_temperature_history(temp_history, v, now)
            /\ tasks' = Append(tasks, Task("send_room_temperature", "", v))
            /\ trv_states' = control_valves(TRV_LIST, trv_states, trvs, window_open,
                                            hvac_mode, Some(v), target_temperature).states
       ELSE UNCHANGED <<current_temperature, temp_history, tasks, trv_states>>
    /\ cmds' = <<>>
    /\ last' = Ran("room_temperature", "")
    /\ UNCHANGED <<started, hvac_mode, saved_hvac_mode, window_open, target_temperature,
                   night_saving_enabled, night_schedule, trvs, config_entry,
                   valve_channel, hass_states, now>>

RoomTemperatureChanged(v) ==
    /\ started
    /\ IF Some(v) # current_temperature
       THEN /\ Len(tasks) < MaxTasks
            /\ current_temperature' = Some(v)
            /\ temp_history' = _update_temperature_history(temp_history, v, now)
            /\ tasks' = Append(tasks, Task("send_room_temperature", "", v))
       ELSE UNCHANGED <<current_temperature, temp_history, tasks>>
    /\ cmds' = <<>>
    /\ last' = Ran("room_temperature", "")
    /\ UNCHANGED <<started, hvac_mode, saved_hvac_mode, window_open, target_temperature,
                   night_saving_enabled, night_schedule, trv_states, trvs, config_entry,
                   valve_channel, hass_states, now>>

\* async_state_changed, return temperature sensor of valve t.
ReturnTemperatureChanged(t, v) ==
    /\ started
    /\ Len(tasks) < MaxTasks
    /\ trv_states' = [trv_states EXCEPT ![t].return_temp = Some(v),
                                         ![t].return_temp_last_updated = Some(now)]
    /\ tasks' = Append(tasks, Task("control_valve", t, 0))
    /\ cmds' = <<>>
    /\ last' = Ran("return_temperature", t)
    /\ UNCHANGED <<started, hvac_mode, saved_hvac_mode, window_open, current_temperature,
                   target_temperature, night_saving_enabled, night_schedule, trvs, config_entry, valve_channel, hass_states, temp_history, now>>

\* async_state_changed with a state that float() rejects, on the room sensor
\* or on a return sensor: nothing is stored, nothing is spawned.
NonNumericChanged ==
    /\ started
    /\ cmds' = <<>>
    /\ last' = Ran("non_numeric", "")
    /\ UNCHANGED <<started, hvac_mode, saved_hvac_mode, window_open, current_temperature,
                   target_temperature, night_saving_enabled, night_schedule, trv_states, trvs,
                   config_entry, valve_channel, hass_states, temp_history, tasks, now>>

\* async_state_changed, the valve actuator's own climate entity.
TrvStateChanged(t, s) ==
    /\ started
    /\ hvac_mode' = IF s \in HVACModeValues THEN s ELSE hvac_mode
    /\ cmds' = <<>>
    /\ last' = Ran("trv_state", s)
    /\ UNCHANGED <<started, saved_hvac_mode, window_open, current_temperature,
                   target_temperature, night_saving_enabled, night_schedule, trv_states, trvs,
                   config_entry, valve_channel, hass_states, temp_history, tasks, now>>

\* async_state_changed, window sensor.
WindowChanged(s) ==
    /\ started
    /\ window_open' = (s \in {"on", "open", "true"})
    /\ IF window_open'
       THEN /\ Len(tasks) < MaxTasks
            /\ saved_hvac_mode' = hvac_mode
            /\ tasks' = Append(tasks, Task("set_hvac_mode", OFF, 0))
       ELSE /\ UNCHANGED saved_hvac_mode
            /\ IF saved_hvac_mode # OFF
               THEN /\ Len(tasks) < MaxTasks
                    /\ tasks' = Append(tasks, Task("set_hvac_mode", saved_hvac_mode, 0))
               ELSE UNCHANGED tasks
    /\ cmds' = <<>>
    /\ last' = Ran("window", s)
    /\ UNCHANGED <<started, hvac_mode, current_temperature, target_temperature,
                   night_saving_enabled, night_schedule, trv_states, trvs, config_entry, valve_channel, hass_states, temp_history, now>>

\* An administrative call as the log shows it: the valve named, the values
\* given, and whether "TRV ... not found in room ..." was logged.
AdminCall(t, args, not_found) == [trv |-> t, args |-> args, not_found |-> not_found]

\* The event loop runs the oldest task created by a handler.
RunTask ==
    /\ tasks # <<>>
    /\ tasks' = Tail(tasks)
    /\ LET task == Head(tasks)
       IN  CASE task.type = "control_valve" ->
                  LET r == _async_control_valve(trv_states, trvs, task.arg, window_open,
                                                hvac_mode, current_temperature,
                                                target_temperature)
                  IN  /\ trv_states' = r.states
                      /\ cmds' = r.cmds
                      /\ last' = RanEval("task_control_valve", task.arg, {task.arg})
                      /\ UNCHANGED hvac_mode
             [] task.type = "set_hvac_mode" ->
                  /\ async_set_hvac_mode(task.arg)
                  /\ last' = Ran("task_set_hvac_mode", task.arg)
                  /\ UNCHANGED trv_states
             [] task.type = "send_room_temperature" ->
                  /\ cmds' = room_temperature_commands(TRV_LIST, task.temp)
                  /\ last' = Ran("task_send_room_temperature", "")
                  /\ UNCHANGED <<hvac_mode, trv_states>>
    /\ UNCHANGED <<started, saved_hvac_mode, window_open, current_temperature,
                   target_temperature, night_saving_enabled, night_schedule, trvs, config_entry, valve_channel, hass_states, temp_history, now>>

\* Variant: the target is stored and the valves wait for their next
\* return-temperature event.
set_temperature_without_evaluation(v) ==
    /\ started
    /\ target_temperature' = v
    /\ cmds' = <<>>
    /\ last' = RanEval("set_temperature", v, TRV_IDS)
    /\ UNCHANGED <<started, hvac_mode, saved_hvac_mode, window_open, current_temperature,
                   night_saving_enabled, night_schedule, trv_states, trvs, config_entry, valve_channel, hass_states, temp_history,
                   tasks, now>>

\* async_set_temperature
SetTemperature(v) ==
    /\ started
    /\ target_temperature' = v
    /\ LET r == control_valves(TRV_LIST, trv_states, trvs, window_open, hvac_mode,
                               current_temperature, v)
       IN  /\ trv_states' = r.states
           /\ cmds' = r.cmds
    /\ last' = RanEval("set_temperature", v, TRV_IDS)
    /\ UNCHANGED <<started, hvac_mode, saved_hvac_mode, window_open, current_temperature,
                   night_saving_enabled, night_schedule, trvs, config_entry, valve_channel, hass_states, temp_history, tasks, now>>

\* async_set_hvac_mode called by the user.
SetHvacMode(m) ==
    /\ started
    /\ async_set_hvac_mode(m)
    /\ last' = Ran("set_hvac_mode", m)
    /\ UNCHANGED <<started, saved_hvac_mode, window_open, current_temperature,
                   target_temperature, night_saving_enabled, night_schedule, trv_states, trvs,
                   config_entry, valve_channel, hass_states, temp_history, tasks, now>>

\* async_set_valve_position, the administrative service.
SetValvePosition(t, position) ==
    /\ started
    /\ IF t \in DOMAIN trv_states
       THEN LET r == _async_set_valve_position(trv_states, t, position)
            IN  /\ trv_states' = r.states
                /\ cmds' = r.cmds
       ELSE /\ cmds' = <<>>
            /\ UNCHANGED trv_states
    /\ last' = Ran("set_valve_position",
                   AdminCall(t, <<position>>, t \notin DOMAIN trv_states))
    /\ UNCHANGED <<started, hvac_mode, saved_hvac_mode, window_open, current_temperature,
                   target_temperature, night_saving_enabled, night_schedule, trvs, config_entry, valve_channel, hass_states, temp_history,
                   tasks, now>>

\* A threshold service that saves the configuration without looking the valve
\* up first.
set_trv_thresholds_without_lookup(t, close, open, maxpos) ==
    /\ started
    /\ cmds' = <<>>
    /\ config_entry' = _save_config(config_entry, trvs)
    /\ last' = Ran("set_trv_thresholds",
                   AdminCall(t, <<close, open, maxpos>>, t \notin TRV_IDS))
    /\ UNCHANGED <<started, hvac_mode, saved_hvac_mode, window_open, current_temperature,
                   target_temperature, night_saving_enabled, night_schedule, trvs,
                   trv_states, valve_channel, hass_states, temp_history, tasks, now>>

\* async_set_trv_thresholds, the administrative service; close, open and
\* maxpos are nullable.
SetTrvThresholds(t, close, open, maxpos) ==
    /\ started
    /\ IF t \in TRV_IDS
       THEN LET c1 == IF close # None
                      THEN [trvs EXCEPT ![t].return_temp_close = Val(close)]
                      ELSE trvs
                c2 == IF open # None
                      THEN [c1 EXCEPT ![t].return_temp_open = Val(open)]
                      ELSE c1
                c3 == IF maxpos # None
                      THEN [c2 EXCEPT ![t].max_valve_position = Val(maxpos)]
                      ELSE c2
                updated == close # None \/ open # None \/ maxpos # None
                call == AdminCall(t, <<close, open, maxpos>>, FALSE)
                r == IF updated
                     THEN _async_control_valve(trv_states, c3, t, window_open, hvac_mode,
                                               current_temperature, target_temperature)
                     ELSE [states |-> trv_states, cmds |-> <<>>]
            IN  /\ trvs' = c3
                /\ config_entry' = IF updated THEN _save_config(config_entry, c3)
                                   ELSE config_entry
                /\ trv_states' = r.states
                /\ cmds' = r.cmds
                /\ last' = IF updated THEN RanEval("set_trv_thresholds", call, {t})
                           ELSE Ran("set_trv_thresholds", call)
       ELSE /\ cmds' = <<>>
            /\ last' = Ran("set_trv_thresholds", AdminCall(t, <<close, open, maxpos>>, TRUE))
            /\ UNCHANGED <<trvs, config_entry, trv_states>>
    /\ UNCHANGED <<started, hvac_mode, saved_hvac_mode, window_open, current_temperature,
                   target_temperature, night_saving_enabled, night_schedule,
                   valve_channel, hass_states, temp_history, tasks, now>>

\* The 5-minute interval callback.
TimerTick ==
    /\ started
    /\ cmds' = _async_update_trv_temperature(current_temperature, hvac_mode,
                                             trv_states, target_temperature)
    /\ last' = Ran("timer", "")
    /\ UNCHANGED <<started, hvac_mode, saved_hvac_mode, window_open, current_temperature,
                   target_temperature, night_saving_enabled, night_schedule, trv_states, trvs,
                   config_entry, valve_channel, hass_states, temp_history, tasks, now>>

\* Wall-clock time passes.
Tick ==
    /\ now + ClockStep <= MaxClock
    /\ now' = now + ClockStep
    /\ cmds' = <<>>
    /\ last' = Ran("tick", "")
    /\ UNCHANGED <<started, hvac_mode, saved_hvac_mode, window_open, current_temperature,
                   target_temperature, night_saving_enabled, night_schedule, trv_states, trvs,
                   config_entry, valve_channel, hass_states, temp_history, tasks>>

\* The initial return temperatures of async_added_to_hass: each valve with a
\* reading stores it and is evaluated at once.
RECURSIVE initial_control(_, _, _, _)
initial_control(l, ts, returns, room) ==
    IF l = <<>> THEN [states |-> ts, cmds |-> <<>>]
    ELSE LET t == Head(l)
             r == IF returns[t] # None
                  THEN _async_control_valve(
                           [ts EXCEPT ![t].return_temp = returns[t],
                                      ![t].return_temp_last_updated = Some(now)],
                           trvs, t, window_open, hvac_mode, room, target_temperature')
                  ELSE [states |-> ts, cmds |-> <<>>]
             rest == initial_control(Tail(l), r.states, returns, room)
         IN  [states |-> rest.states, cmds |-> r.cmds \o rest.cmds]

\* async_added_to_hass: restore, read the initial sensor states, evaluate the
\* valves, look at the window, then run the interval callback once.
Startup(restored_target, restored_night, room, returns, window) ==
    /\ ~started
    /\ started' = TRUE
    /\ target_temperature' = IF restored_target # None THEN Val(restored_target)
                             ELSE target_temperature
    /\ night_saving_enabled' = restored_night
    /\ current_temperature' = room
    /\ temp_history' = IF room # None
                       THEN _update_temperature_history(temp_history, Val(room), now)
                       ELSE temp_history
    /\ window_open' = (window \in {"on", "open", "true"})
    /\ IF window_open'
       THEN /\ saved_hvac_mode' = hvac_mode
            /\ hvac_mode' = OFF
       ELSE UNCHANGED <<saved_hvac_mode, hvac_mode>>
    /\ LET r == initial_control(TRV_LIST, trv_states, returns, room)
       IN  /\ trv_states' = r.states
           /\ cmds' = r.cmds \o _async_update_trv_temperature(
                                    room, hvac_mode', r.states, target_temperature')
           /\ last' = RanEval("startup", "", {t \in TRV_IDS : returns[t] # None})
    /\ UNCHANGED <<night_schedule, trvs, config_entry, valve_channel, hass_states, tasks, now>>

Next ==
    \/ \E rt \in RestoredTargets, rn \in RestoredNightSaving, room \in InitialRooms,
          returns \in InitialReturns, w \in InitialWindowStates :
          Startup(rt, rn, room, returns, w)
    \/ \E v \in RoomTemps : RoomTemperatureChanged(v)
    \/ \E e \in ReturnEvents : ReturnTemperatureChanged(e[1], e[2])
    \/ NonNumericChanged
    \/ \E t \in TRV_IDS, s \in TrvReportedStates : TrvStateChanged(t, s)
    \/ \E s \in WindowStates : WindowChanged(s)
    \/ RunTask
    \/ \E v \in TargetTemps : SetTemperature(v)
    \/ \E m \in {HEAT, OFF} : SetHvacMode(m)
    \/ \E c \in PositionCalls : SetValvePosition(c[1], c[2])
    \/ \E c \in ThresholdCalls : SetTrvThresholds(c[1], c[2], c[3], c[4])
    \/ TimerTick

Spec == Init /\ [][Next]_vars

-----------------------------------------------------------------------------
(* Window handling alone: the mode is changed by the window sensor and the  *)
(* tasks it creates, not by the user or by the actuators' own reports.      *)

NextWindow ==
    \/ \E rt \in RestoredTargets, rn \in RestoredNightSaving, room \in InitialRooms,
          returns \in InitialReturns, w \in InitialWindowStates :
          Startup(rt, rn, room, returns, w)
    \/ \E s \in WindowStates : WindowChanged(s)
    \/ RunTask
    \/ \E v \in RoomTemps : RoomTemperatureChanged(v)
    \/ \E e \in ReturnEvents : ReturnTemperatureChanged(e[1], e[2])
    \/ \E v \in TargetTemps : SetTemperature(v)
    \/ TimerTick

SpecWindow == Init /\ [][NextWindow]_vars

-----------------------------------------------------------------------------
(* Valve control alone: _async_control_valve called on a running entity     *)
(* whose readings and configuration are drawn from the Control sets.        *)

InitControl ==
    /\ started = TRUE
    /\ hvac_mode \in {HEAT, OFF}
    /\ saved_hvac_mode = HEAT
    /\ window_open \in BOOLEAN
    /\ current_temperature \in {None} \cup {Some(v) : v \in ControlRooms}
    /\ target_temperature \in ControlTargets
    /\ night_saving_enabled = FALSE
    /\ night_schedule = DEFAULT_NIGHT_SCHEDULE
    /\ \E ret \in {None} \cup {Some(v) : v \in ControlReturns},
          pos \in ControlPositions, cfg \in ControlConfigs :
          /\ trv_states = [t \in TRV_IDS |->
                IF t = TRV_LIST[1]
                THEN [return_temp |-> ret,
                      return_temp_last_updated |-> IF ret = None THEN None ELSE Some(0),
                      valve_position |-> pos, valve_control_active |-> FALSE]
                ELSE [return_temp |-> None, return_temp_last_updated |-> None,
                      valve_position |-> 0, valve_control_active |-> FALSE]]
          /\ trvs = [t \in TRV_IDS |->
                IF t = TRV_LIST[1] THEN cfg
                ELSE [return_temp_close |-> DEFAULT_RETURN_TEMP_CLOSE,
                   return_temp_open |-> DEFAULT_RETURN_TEMP_OPEN,
                      max_valve_position |-> DEFAULT_MAX_VALVE_POSITION,
                      proportional_band |-> DEFAULT_PROPORTIONAL_BAND,
                      pid_anticipatory_offset |-> DEFAULT_ANTICIPATORY_OFFSET,
                   night_schedule |-> DEFAULT_NIGHT_SCHEDULE]]
    /\ \E ch \in ControlChannels : valve_channel = [t \in TRV_IDS |-> ch]
    /\ hass_states = NO_ENTITIES
    /\ temp_history = first_reading_history(current_temperature)
    /\ config_entry = FlowEntry(trvs)
    /\ tasks = <<>>
    /\ now = 0
    /\ cmds = <<>>
    /\ last = Ran("init", "")

\* A direct call of _async_control_valve for valve t.
ControlValve(t) ==
    /\ started
    /\ LET r == _async_control_valve(trv_states, trvs, t, window_open, hvac_mode,
                                     current_temperature, target_temperature)
       IN  /\ trv_states' = r.states
           /\ cmds' = r.cmds
    /\ last' = RanEval("control_valve", t, {t})
    /\ UNCHANGED <<started, hvac_mode, saved_hvac_mode, window_open, current_temperature,
                   target_temperature, night_saving_enabled, night_schedule, trvs, config_entry, valve_channel, hass_states, temp_history,
                   tasks, now>>

NextControl ==
    \/ \E t \in TRV_IDS : ControlValve(t)
    \/ Tick

SpecControl == InitControl /\ [][NextControl]_vars

-----------------------------------------------------------------------------
(* The idle nudge and the interval callback on a running entity whose        *)
(* actuators report the states drawn from the Nudge sets.                    *)

NudgeReports == {None, Some("idle"), Some("heating")}
NudgeSensorStates == {"", "idle", "Idle", "heating"}
NudgeClimates ==
    {None} \cup {Some(ClimateAttributes(r, a)) : r \in NudgeReports, a \in NudgeReports}
NudgeEntities ==
    {ActuatorEntities(s, c, sel) :
        s \in NudgeSensorStates, c \in NudgeClimates, sel \in BOOLEAN}
NudgeOtherEntities ==
    {ActuatorEntities("idle", None, TRUE), ActuatorEntities("heating", None, TRUE)}
NudgePositions == {0, 55}

InitNudge ==
    /\ started = TRUE
    /\ hvac_mode \in {HEAT, OFF}
    /\ saved_hvac_mode = HEAT
    /\ window_open = FALSE
    /\ current_temperature \in {None, Some(190)}
    /\ target_temperature = DEFAULT_TARGET_TEMPERATURE
    /\ night_saving_enabled = FALSE
    /\ night_schedule = DEFAULT_NIGHT_SCHEDULE
    /\ \E p1 \in NudgePositions, p2 \in NudgePositions :
          trv_states = [t \in TRV_IDS |->
                [return_temp |-> None, return_temp_last_updated |-> None,
                 valve_position |-> IF t = TRV_LIST[1] THEN p1 ELSE p2,
                 valve_control_active |-> FALSE]]
    /\ trvs = [t \in TRV_IDS |->
                  [return_temp_close |-> DEFAULT_RETURN_TEMP_CLOSE,
                   return_temp_open |-> DEFAULT_RETURN_TEMP_OPEN,
                   max_valve_position |-> DEFAULT_MAX_VALVE_POSITION,
                   proportional_band |-> DEFAULT_PROPORTIONAL_BAND,
                   pid_anticipatory_offset |-> DEFAULT_ANTICIPATORY_OFFSET,
                   night_schedule |-> DEFAULT_NIGHT_SCHEDULE]]
    /\ valve_channel \in ChannelAssignments
    /\ \E e1 \in NudgeEntities, e2 \in NudgeOtherEntities :
          hass_states = [t \in TRV_IDS |-> IF t = TRV_LIST[1] THEN e1 ELSE e2]
    /\ temp_history = first_reading_history(current_temperature)
    /\ config_entry = FlowEntry(trvs)
    /\ tasks = <<>>
    /\ now = 0
    /\ cmds = <<>>
    /\ last = Ran("init", "")

\* A direct call of _async_nudge_trv_if_idle for valve t.
NudgeTrvIfIdle(t) ==
    /\ started
    /\ cmds' = _async_nudge_trv_if_idle(hass_states, t)
    /\ last' = Ran("nudge", t)
    /\ UNCHANGED <<started, hvac_mode, saved_hvac_mode, window_open, current_temperature,
                   target_temperature, night_saving_enabled, night_schedule, trv_states, trvs,
                   config_entry, valve_channel, hass_states, temp_history, tasks, now>>

NextNudge ==
    \/ \E t \in TRV_IDS : NudgeTrvIfIdle(t)
    \/ TimerTick

SpecNudge == InitNudge /\ [][NextNudge]_vars

-----------------------------------------------------------------------------
(* The night setback and the heating status on a running entity whose        *)
(* schedule, clock and readings are drawn from the Night sets.               *)

\* Monday 00:00, 02:00, 05:59, 06:00, 06:01, 12:00, 23:00; Tuesday 02:00.
NightTimes == {0, 120, 359, 360, 361, 720, 1380, 1560}
NightWindows == {<<0, 360>>, <<1380, 360>>, <<720, 720>>}
NightReductions == {-20, -50, 50}
NightEntries ==
    {[enabled |-> e, start_time |-> w[1], end_time |-> w[2], temp_reduction |-> r] :
        e \in BOOLEAN, w \in NightWindows, r \in NightReductions}
\* Monday's entry is drawn, the other days keep the default entry.
NightSchedules ==
    {[d \in DOMAIN DEFAULT_NIGHT_SCHEDULE |->
         IF d = DAY_NAMES[1] THEN e ELSE DEFAULT_NIGHT_SCHEDULE[d]] : e \in NightEntries}
\* What the options flow stores for a valve: untouched, or Monday 23:00-06:00.
NightValveSchedules ==
    {DEFAULT_NIGHT_SCHEDULE,
     [d \in DOMAIN DEFAULT_NIGHT_SCHEDULE |->
         IF d = DAY_NAMES[1]
         THEN [enabled |-> TRUE, start_time |-> 1380, end_time |-> 360,
               temp_reduction |-> -20]
         ELSE DEFAULT_NIGHT_SCHEDULE[d]]}
NightRooms == {None, Some(40), Some(185), Some(200), Some(310)}
NightTargets == {60, 200, 280}

InitNight ==
    /\ started = TRUE
    /\ hvac_mode \in {HEAT, OFF}
    /\ saved_hvac_mode = HEAT
    /\ window_open \in BOOLEAN
    /\ current_temperature \in NightRooms
    /\ target_temperature \in NightTargets
    /\ night_saving_enabled \in BOOLEAN
    /\ night_schedule \in {DEFAULT_NIGHT_SCHEDULE} \cup NightSchedules
    /\ trv_states = [t \in TRV_IDS |->
            [return_temp |-> IF t = TRV_LIST[1] THEN Some(270) ELSE None,
             return_temp_last_updated |-> IF t = TRV_LIST[1] THEN Some(0) ELSE None,
             valve_position |-> 0, valve_control_active |-> FALSE]]
    /\ \E vs \in NightValveSchedules :
          trvs = [t \in TRV_IDS |->
                    [return_temp_close |-> DEFAULT_RETURN_TEMP_CLOSE,
                   return_temp_open |-> DEFAULT_RETURN_TEMP_OPEN,
                     max_valve_position |-> DEFAULT_MAX_VALVE_POSITION,
                     proportional_band |-> DEFAULT_PROPORTIONAL_BAND,
                     pid_anticipatory_offset |-> DEFAULT_ANTICIPATORY_OFFSET,
                     night_schedule |-> IF t = TRV_LIST[1] THEN vs
                                        ELSE DEFAULT_NIGHT_SCHEDULE]]
    /\ valve_channel \in ChannelAssignments
    /\ hass_states = NO_ENTITIES
    /\ temp_history = first_reading_history(current_temperature)
    /\ config_entry = FlowEntry(trvs)
    /\ tasks = <<>>
    /\ now \in NightTimes
    /\ cmds = <<>>
    /\ last = Ran("init", "")

\* A call of _is_night_saving_time.
IsNightSavingTime ==
    /\ started
    /\ cmds' = <<>>
    /\ last' = Ran("is_night_saving_time",
                   _is_night_saving_time(night_saving_enabled, _night_schedule, now))
    /\ UNCHANGED <<started, hvac_mode, saved_hvac_mode, window_open, current_temperature,
                   target_temperature, night_saving_enabled, night_schedule, trv_states,
                   trvs, config_entry, valve_channel, hass_states, temp_history, tasks, now>>

\* A call of _get_adjusted_target_temperature.
GetAdjustedTargetTemperature ==
    /\ started
    /\ cmds' = <<>>
    /\ last' = Ran("adjusted_target",
                   _get_adjusted_target_temperature(target_temperature,
                       night_saving_enabled, _night_schedule, now))
    /\ UNCHANGED <<started, hvac_mode, saved_hvac_mode, window_open, current_temperature,
                   target_temperature, night_saving_enabled, night_schedule, trv_states,
                   trvs, config_entry, valve_channel, hass_states, temp_history, tasks, now>>

\* A call of _determine_heating_status (made when the attributes are read).
DetermineHeatingStatus ==
    /\ started
    /\ cmds' = <<>>
    /\ last' = Ran("heating_status",
                   _determine_heating_status(window_open, hvac_mode, current_temperature,
                       Some(_get_adjusted_target_temperature(target_temperature,
                                night_saving_enabled, _night_schedule, now)),
                       _is_night_saving_time(night_saving_enabled, _night_schedule, now)))
    /\ UNCHANGED <<started, hvac_mode, saved_hvac_mode, window_open, current_temperature,
                   target_temperature, night_saving_enabled, night_schedule, trv_states,
                   trvs, config_entry, valve_channel, hass_states, temp_history, tasks, now>>

NextNight ==
    \/ IsNightSavingTime
    \/ GetAdjustedTargetTemperature
    \/ DetermineHeatingStatus
    \/ \E t \in TRV_IDS : ControlValve(t)

SpecNight == InitNight /\ [][NextNight]_vars

-----------------------------------------------------------------------------
(* The administrative services on a running entity, for each format of the   *)
(* configuration entry.                                                      *)

AdminValves == {TRV_LIST[1], "climate.unknown"}
AdminThresholdCalls ==
    {<<t, c, o, m>> : t \in AdminValves, c \in {None, Some(300)},
                      o \in {None, Some(280)}, m \in {None, Some(50)}}
AdminPositionCalls ==
    {<<t, p>> : t \in AdminValves, p \in {0, 100}} \cup {<<TRV_LIST[2], 100>>}
AdminEntries(cfgs) == {FlowEntry(cfgs), RoomsDataEntry(cfgs), RoomsOptionsEntry(cfgs)}
\* The first valve's actuator is reachable through its number entity, or not
\* at all (no number entity and no MQTT service).
AdminChannels ==
    {[t \in TRV_IDS |-> IF t = TRV_LIST[1] THEN ch ELSE "mqtt"] : ch \in {"number", "none"}}

InitAdmin ==
    /\ started = TRUE
    /\ hvac_mode \in {HEAT, OFF}
    /\ saved_hvac_mode = HEAT
    /\ window_open = FALSE
    /\ current_temperature \in {None, Some(190)}
    /\ target_temperature = DEFAULT_TARGET_TEMPERATURE
    /\ night_saving_enabled = FALSE
    /\ night_schedule = DEFAULT_NIGHT_SCHEDULE
    /\ \E ret \in {None, Some(310)} :
          trv_states = [t \in TRV_IDS |->
                [return_temp |-> IF t = TRV_LIST[1] THEN ret ELSE Some(270),
                 return_temp_last_updated |-> IF t = TRV_LIST[1] /\ ret = None
                                              THEN None ELSE Some(0),
                 valve_position |-> 0, valve_control_active |-> FALSE]]
    /\ trvs = [t \in TRV_IDS |->
                  [return_temp_close |-> DEFAULT_RETURN_TEMP_CLOSE,
                   return_temp_open |-> DEFAULT_RETURN_TEMP_OPEN,
                   max_valve_position |-> DEFAULT_MAX_VALVE_POSITION,
                   proportional_band |-> DEFAULT_PROPORTIONAL_BAND,
                   pid_anticipatory_offset |-> DEFAULT_ANTICIPATORY_OFFSET,
                   night_schedule |-> DEFAULT_NIGHT_SCHEDULE]]
    /\ config_entry \in AdminEntries(trvs)
    /\ valve_channel \in AdminChannels
    /\ hass_states = NO_ENTITIES
    /\ temp_history = first_reading_history(current_temperature)
    /\ tasks = <<>>
    /\ now = 0
    /\ cmds = <<>>
    /\ last = Ran("init", "")

NextAdmin ==
    \/ \E c \in AdminThresholdCalls : SetTrvThresholds(c[1], c[2], c[3], c[4])
    \/ \E c \in AdminPositionCalls : SetValvePosition(c[1], c[2])

SpecAdmin == InitAdmin /\ [][NextAdmin]_vars

-----------------------------------------------------------------------------
(* The state-change handler on the text of a sensor's state.                 *)

\* "20.5", "unknown", "", "nan", "19,5".
RoomSensorTexts ==
    {<<"2", "0", ".", "5">>, <<"u", "n", "k", "n", "o", "w", "n">>, <<>>,
     <<"n", "a", "n">>, <<"1", "9", ",", "5">>}
\* "33", "unavailable", "nan", for the first valve.
ReturnSensorTexts ==
    {<<"3", "3">>, <<"u", "n", "a", "v", "a", "i", "l", "a", "b", "l", "e">>,
     <<"n", "a", "n">>}
ReturnSensorEvents == {<<TRV_LIST[1], text>> : text \in ReturnSensorTexts}

\* async_state_changed for the room temperature sensor with state text.
RoomSensorStateChanged(text) ==
    /\ started
    /\ LET new_temp == float(text)
       IN  IF new_temp # None /\ (new_temp = Some(NAN) \/ new_temp # current_temperature)
           THEN /\ Len(tasks) < MaxTasks
                /\ current_temperature' = new_temp
                /\ temp_history' = _update_temperature_history(temp_history,
                                                               Val(new_temp), now)
                /\ tasks' = Append(tasks, Task("send_room_temperature", "", Val(new_temp)))
           ELSE UNCHANGED <<current_temperature, temp_history, tasks>>
    /\ cmds' = <<>>
    /\ last' = Ran("room_sensor_state", text)
    /\ UNCHANGED <<started, hvac_mode, saved_hvac_mode, window_open, target_temperature,
                   night_saving_enabled, night_schedule, trv_states, trvs, config_entry,
                   valve_channel, hass_states, now>>

\* async_state_changed for the return temperature sensor of valve t.
ReturnSensorStateChanged(t, text) ==
    /\ started
    /\ LET return_temp == float(text)
       IN  IF return_temp # None
           THEN /\ Len(tasks) < MaxTasks
                /\ trv_states' = [trv_states EXCEPT
                                      ![t].return_temp = return_temp,
                                      ![t].return_temp_last_updated = Some(now)]
                /\ tasks' = Append(tasks, Task("control_valve", t, 0))
           ELSE UNCHANGED <<trv_states, tasks>>
    /\ cmds' = <<>>
    /\ last' = Ran("return_sensor_state", [trv |-> t, text |-> text])
    /\ UNCHANGED <<started, hvac_mode, saved_hvac_mode, window_open, current_temperature,
                   target_temperature, night_saving_enabled, night_schedule, trvs,
                   config_entry, valve_channel, hass_states, temp_history, now>>

\* A spawned task runs; the tasks that would compute with a NaN are left out.
RunTaskOnNumbers ==
    /\ current_temperature # Some(NAN)
    /\ \A t \in TRV_IDS : trv_states[t].return_temp # Some(NAN)
    /\ tasks # <<>> /\ Head(tasks).temp # NAN
    /\ RunTask

NextParse ==
    \/ \E rt \in RestoredTargets, rn \in RestoredNightSaving, room \in InitialRooms,
          returns \in InitialReturns, w \in InitialWindowStates :
          Startup(rt, rn, room, returns, w)
    \/ \E text \in RoomSensorTexts : RoomSensorStateChanged(text)
    \/ \E e \in ReturnSensorEvents : ReturnSensorStateChanged(e[1], e[2])
    \/ RunTaskOnNumbers

SpecParse == Init /\ [][NextParse]_vars

-----------------------------------------------------------------------------
(* Forwarding the room temperature to one actuator, by what the registry     *)
(* holds for it: a sensor-source select entity, an external-temperature      *)
(* number entity, and whether the mqtt.publish service exists.               *)

ExternalSensorEntities == [select : BOOLEAN, number : BOOLEAN]

\* _async_send_room_temperature_to_trv: step 1 switches the sensor source to
\* external, step 2 pushes the value; a call of step 1 that raises ends the
\* attempt.
_async_send_room_temperature_to_trv(e, mqtt, raises, t, temperature) ==
    LET step1 == IF e.select
                 THEN <<[kind |-> "sensor_select.select", trv |-> t, val |-> "external"]>>
                 ELSE IF mqtt
                 THEN <<[kind |-> "sensor_select.mqtt", trv |-> t, val |-> "external"]>>
                 ELSE <<>>
        step2 == IF e.number
                 THEN <<[kind |-> "external_temperature.number", trv |-> t,
                         val |-> temperature]>>
                 ELSE IF mqtt
                 THEN <<[kind |-> "external_temperature.mqtt", trv |-> t,
                         val |-> temperature]>>
                 ELSE <<>>
    IN  IF raises /\ step1 # <<>> THEN step1 ELSE step1 \o step2

\* _async_send_room_temperature_to_all_trvs with registry reg.
RECURSIVE send_room_temperature_to_all(_, _, _, _, _)
send_room_temperature_to_all(l, reg, mqtt, raises, temperature) ==
    IF l = <<>> THEN <<>>
    ELSE _async_send_room_temperature_to_trv(reg[Head(l)], mqtt, Head(l) \in raises,
                                             Head(l), temperature)
         \o send_room_temperature_to_all(Tail(l), reg, mqtt, raises, temperature)

\* A forward of the current room temperature to every valve.
SendRoomTemperatureToAllTrvs(reg, mqtt, raises) ==
    /\ started
    /\ current_temperature # None
    /\ cmds' = send_room_temperature_to_all(TRV_LIST, reg, mqtt, raises,
                                            Val(current_temperature))
    /\ last' = Ran("send_room_temperature_to_all",
                   [reg |-> reg, mqtt |-> mqtt, raises |-> raises])
    /\ UNCHANGED <<started, hvac_mode, saved_hvac_mode, window_open, current_temperature,
                   target_temperature, night_saving_enabled, night_schedule, trv_states,
                   trvs, config_entry, valve_channel, hass_states, temp_history, tasks, now>>

NextForward ==
    \E reg \in [TRV_IDS -> ExternalSensorEntities], mqtt \in BOOLEAN,
       raises \in {{}, {TRV_LIST[1]}} :
        SendRoomTemperatureToAllTrvs(reg, mqtt, raises)

SpecForward == InitAdmin /\ [][NextForward]_vars

-----------------------------------------------------------------------------
(* Position commands in flight.  _async_set_valve_position hands its command *)
(* to the service registry with blocking=False: the call is carried out by a *)
(* task of its own, and the tasks of several commands finish in any order.   *)

MaxInFlight == 2

Delivery(t, position) == [type |-> "deliver_position", arg |-> t, temp |-> position]

\* The service-call tasks created for the position commands c.
deliveries(c) == [i \in 1..Len(c) |-> Delivery(c[i].trv, c[i].val)]

\* Sequence s without its element i.
RemoveAt(s, i) == SubSeq(s, 1, i - 1) \o SubSeq(s, i + 1, Len(s))

\* A spawned control evaluation of valve t runs.
SpawnedControlValve(t) ==
    /\ started
    /\ LET r == _async_control_valve(trv_states, trvs, t, window_open, hvac_mode,
                                     current_temperature, target_temperature)
       IN  /\ Len(tasks) + Len(r.cmds) <= MaxInFlight
           /\ trv_states' = r.states
           /\ cmds' = r.cmds
           /\ tasks' = tasks \o deliveries(r.cmds)
    /\ last' = RanEval("control_valve", t, {t})
    /\ UNCHANGED <<started, hvac_mode, saved_hvac_mode, window_open, current_temperature,
                   target_temperature, night_saving_enabled, night_schedule, trvs,
                   config_entry, valve_channel, hass_states, temp_history, now>>

\* async_set_valve_position for a valve of the room.
AdminSetValvePosition(t, position) ==
    /\ started
    /\ t \in DOMAIN trv_states
    /\ LET r == _async_set_valve_position(trv_states, t, position)
       IN  /\ Len(tasks) + Len(r.cmds) <= MaxInFlight
           /\ trv_states' = r.states
           /\ cmds' = r.cmds
           /\ tasks' = tasks \o deliveries(r.cmds)
    /\ last' = Ran("set_valve_position", AdminCall(t, <<position>>, FALSE))
    /\ UNCHANGED <<started, hvac_mode, saved_hvac_mode, window_open, current_temperature,
                   target_temperature, night_saving_enabled, night_schedule, trvs,
                   config_entry, valve_channel, hass_states, temp_history, now>>

\* The service-call task i finishes: its position reaches the actuator.
DeliverPosition(i) ==
    /\ i \in 1..Len(tasks)
    /\ tasks' = RemoveAt(tasks, i)
    /\ cmds' = <<>>
    /\ last' = Ran("deliver_position", [trv |-> tasks[i].arg, position |-> tasks[i].temp])
    /\ UNCHANGED <<started, hvac_mode, saved_hvac_mode, window_open, current_temperature,
                   target_temperature, night_saving_enabled, night_schedule, trv_states,
                   trvs, config_entry, valve_channel, hass_states, temp_history, now>>

NextDelivery ==
    \/ \E t \in TRV_IDS : SpawnedControlValve(t)
    \/ \E c \in AdminPositionCalls : AdminSetValvePosition(c[1], c[2])
    \/ \E i \in 1..MaxInFlight : DeliverPosition(i)

SpecDelivery == InitAdmin /\ [][NextDelivery]_vars

-----------------------------------------------------------------------------
(* Forwards of the room temperature as the coroutines they are.  A forward   *)
(* carries the temperature it was started with through the valves in order   *)
(* and is suspended at each awaited call; another forward started meanwhile  *)
(* runs between its steps.  Per valve the awaited steps are the switch of    *)
(* the sensor source (blocking=True) and the pause before the value is sent. *)

MaxForwards == 2

ForwardTemps == {190, 200}

\* The position of a forward: about to switch valve TRV_LIST[i] to the
\* external sensor, about to send it the value, or (timer only) about to
\* re-send the targets.
ForwardAt(i, step) == [i |-> i, step |-> step]

\* async_state_changed for a numeric room-sensor state v.
RoomChangeSpawnsForward(v) ==
    /\ started
    /\ IF Some(v) # current_temperature
       THEN /\ Len(tasks) < MaxForwards
            /\ current_temperature' = Some(v)
            /\ temp_history' = _update_temperature_history(temp_history, v, now)
            /\ tasks' = Append(tasks, Task("send_room_temperature", ForwardAt(1, "switch"), v))
       ELSE UNCHANGED <<current_temperature, temp_history, tasks>>
    /\ cmds' = <<>>
    /\ last' = Ran("room_temperature", "")
    /\ UNCHANGED <<started, hvac_mode, saved_hvac_mode, window_open, target_temperature,
                   night_saving_enabled, night_schedule, trv_states, trvs, config_entry,
                   valve_channel, hass_states, now>>

\* The 5-minute timer fires: _async_update_trv_temperature starts with the
\* room temperature of that moment.
TimerSpawnsRefresh ==
    /\ started
    /\ IF current_temperature # None
       THEN /\ Len(tasks) < MaxForwards
            /\ tasks' = Append(tasks, Task("update_trv_temperature", ForwardAt(1, "switch"),
                                           Val(current_temperature)))
       ELSE UNCHANGED tasks
    /\ cmds' = <<>>
    /\ last' = Ran("timer", "")
    /\ UNCHANGED <<started, hvac_mode, saved_hvac_mode, window_open, current_temperature,
                   target_temperature, night_saving_enabled, night_schedule, trv_states,
                   trvs, config_entry, valve_channel, hass_states, temp_history, now>>

\* Where a forward of the given type stands after sending valve i its value.
after_value(type, i) ==
    IF i < Len(TRV_LIST) THEN Some(ForwardAt(i + 1, "switch"))
    ELSE IF type = "update_trv_temperature" THEN Some(ForwardAt(i, "targets"))
    ELSE None

\* Tasks s with task k moved to position at, or finished when at is None.
advance(s, k, at) ==
    IF at = None THEN SubSeq(s, 1, k - 1) \o SubSeq(s, k + 1, Len(s))
    ELSE [s EXCEPT ![k].arg = Val(at)]

\* Forward k runs from the await it is suspended at to its next one.
ForwardStep(k) ==
    /\ k \in 1..Len(tasks)
    /\ LET task == tasks[k]
           t == TRV_LIST[task.arg.i]
       IN  CASE task.arg.step = "switch" ->
                  /\ cmds' = <<[kind |-> "sensor_select", trv |-> t, val |-> "external"]>>
                  /\ tasks' = advance(tasks, k, Some(ForwardAt(task.arg.i, "value")))
                  /\ last' = Ran("forward_switch", t)
             [] task.arg.step = "value" ->
                  /\ cmds' = <<[kind |-> "external_temperature", trv |-> t,
                                val |-> task.temp]>>
                  /\ tasks' = advance(tasks, k, after_value(task.type, task.arg.i))
                  /\ last' = Ran("forward_value", [trv |-> t, temperature |-> task.temp])
             [] task.arg.step = "targets" ->
                  /\ cmds' = IF hvac_mode = HEAT
                             THEN target_temperature_commands(TRV_LIST, trv_states,
                                                              target_temperature)
                             ELSE <<>>
                  /\ tasks' = advance(tasks, k, None)
                  /\ last' = Ran("refresh_targets", "")
    /\ UNCHANGED <<started, hvac_mode, saved_hvac_mode, window_open, current_temperature,
                   target_temperature, night_saving_enabled, night_schedule, trv_states,
                   trvs, config_entry, valve_channel, hass_states, temp_history, now>>

NextOvertake ==
    \/ \E v \in ForwardTemps : RoomChangeSpawnsForward(v)
    \/ TimerSpawnsRefresh
    \/ \E k \in 1..MaxForwards : ForwardStep(k)

SpecOvertake == InitAdmin /\ [][NextOvertake]_vars

-----------------------------------------------------------------------------
(* The room sensor over a long run: readings that differ from the stored one *)
(* are appended to the history while the clock advances.                     *)

InitHistory ==
    /\ InitAdmin
    /\ hvac_mode = HEAT
    /\ current_temperature # None
    /\ \A t \in TRV_IDS : trv_states[t].return_temp # None

\* The heating rate is read off the history as it stands.
CalculateHeatingRate ==
    /\ started
    /\ cmds' = <<>>
    /\ last' = Ran("calculate_heating_rate", _calculate_heating_rate(temp_history))
    /\ UNCHANGED <<started, hvac_mode, saved_hvac_mode, window_open, current_temperature,
                   target_temperature, night_saving_enabled, night_schedule, trv_states,
                   trvs, config_entry, valve_channel, hass_states, temp_history, tasks, now>>

NextHistory ==
    \/ \E v \in ForwardTemps : RoomTemperatureChanged(v)
    \/ RunTask
    \/ Tick
    \/ CalculateHeatingRate

SpecHistory == InitHistory /\ [][NextHistory]_vars

-----------------------------------------------------------------------------
(* The target temperature: async_set_temperature with whatever the caller    *)
(* passes (nothing, or a temperature inside or outside 5..30) and a startup  *)
(* that restores whatever the last stored state holds.                       *)

TemperatureCalls == {None, Some(45), Some(200), Some(300), Some(350)}

StoredTargets == {None, Some(220), Some(350)}

\* async_set_temperature(**kwargs) with kwargs.get(ATTR_TEMPERATURE) = temperature.
SetTemperatureCall(temperature) ==
    /\ started
    /\ IF temperature = None
       THEN /\ cmds' = <<>>
            /\ UNCHANGED <<target_temperature, trv_states>>
       ELSE /\ target_temperature' = Val(temperature)
            /\ LET r == control_valves(TRV_LIST, trv_states, trvs, window_open, hvac_mode,
                                       current_temperature, Val(temperature))
               IN  /\ trv_states' = r.states
                   /\ cmds' = r.cmds
    /\ last' = Ran("set_temperature_call", temperature)
    /\ UNCHANGED <<started, hvac_mode, saved_hvac_mode, window_open, current_temperature,
                   night_saving_enabled, night_schedule, trvs, config_entry, valve_channel,
                   hass_states, temp_history, tasks, now>>

NextTarget ==
    \/ \E rt \in StoredTargets, room \in InitialRooms, returns \in InitialReturns :
          Startup(rt, FALSE, room, returns, "absent")
    \/ \E temperature \in TemperatureCalls : SetTemperatureCall(temperature)
    \/ \E e \in ReturnEvents : ReturnTemperatureChanged(e[1], e[2])
    \/ RunTask

SpecTarget == Init /\ [][NextTarget]_vars

-----------------------------------------------------------------------------
(* The room mode under the actuators' own state notifications, for every     *)
(* kind of state a climate entity reports.                                   *)

ActuatorStates == {"heat", "off", "auto", "cool", "unavailable", ""}

NextModes ==
    \/ \E rt \in RestoredTargets, room \in InitialRooms, returns \in InitialReturns,
          w \in InitialWindowStates :
          Startup(rt, FALSE, room, returns, w)
    \/ \E t \in TRV_IDS, s \in ActuatorStates : TrvStateChanged(t, s)
    \/ \E s \in WindowStates : WindowChanged(s)
    \/ \E m \in {HEAT, OFF} : SetHvacMode(m)
    \/ RunTask

SpecModes == Init /\ [][NextModes]_vars

-----------------------------------------------------------------------------
(* A room that warms up past its target while its valves are open: the room  *)
(* sensor, the return sensors, the timer and set_temperature on a running    *)
(* entity.                                                                   *)

RisingRooms == {190, 210}

NextRoom ==
    \/ \E v \in RisingRooms : RoomTemperatureChanged(v)
    \/ \E e \in ReturnEvents : ReturnTemperatureChanged(e[1], e[2])
    \/ \E v \in TargetTemps : SetTemperature(v)
    \/ TimerTick
    \/ RunTask

SpecRoom == InitHistory /\ [][NextRoom]_vars

-----------------------------------------------------------------------------
(* The window sensor with every kind of state it reports, on the window      *)
(* handling alone.                                                           *)

WindowSensorStates == {"on", "off", "unavailable", "unknown"}

NextWindowSensor ==
    \/ \E rt \in RestoredTargets, room \in InitialRooms, returns \in InitialReturns,
          w \in InitialWindowStates :
          Startup(rt, FALSE, room, returns, w)
    \/ \E s \in WindowSensorStates : WindowChanged(s)
    \/ \E e \in ReturnEvents : ReturnTemperatureChanged(e[1], e[2])
    \/ RunTask

SpecWindowSensor == Init /\ [][NextWindowSensor]_vars

-----------------------------------------------------------------------------
(* The night-saving service on a running entity.  async_set_night_saving     *)
(* stores the supplied arguments and then awaits self._async_control_trvs,   *)
(* a method TRVClimate does not define: the attribute lookup raises          *)
(* AttributeError and no valve is evaluated.                                 *)

NightSavingCalls ==
    [enabled : {None, Some(TRUE), Some(FALSE)},
     start_time : {None, Some(1320)},
     end_time : {None, Some(360)},
     temp_reduction : {None, Some(-20), Some(-80), Some(70)}]

\* What one call stores (None: the attribute keeps its value) and how it ends.
async_set_night_saving(call) ==
    [enabled |-> call.enabled,
     start_time |-> call.start_time,
     end_time |-> call.end_time,
     temp_reduction |-> IF call.temp_reduction = None THEN None
                        ELSE Some(Max2(-50, Min2(50, Val(call.temp_reduction)))),
     raised |-> "AttributeError"]

SetNightSaving(call) ==
    /\ started
    /\ LET r == async_set_night_saving(call)
       IN  /\ night_saving_enabled' = IF r.enabled # None THEN Val(r.enabled)
                                      ELSE night_saving_enabled
           /\ last' = Ran("set_night_saving", [call |-> call, result |-> r])
    /\ cmds' = <<>>
    /\ UNCHANGED <<started, hvac_mode, saved_hvac_mode, window_open, current_temperature,
                   target_temperature, night_schedule, trv_states, trvs, config_entry,
                   valve_channel, hass_states, temp_history, tasks, now>>

NextNightSaving ==
    \/ \E call \in NightSavingCalls : SetNightSaving(call)
    \/ \E e \in ReturnEvents : ReturnTemperatureChanged(e[1], e[2])
    \/ RunTask

SpecNightSaving == InitAdmin /\ [][NextNightSaving]_vars

-----------------------------------------------------------------------------
(* The options flow edits a valve of a running room: the entry is updated    *)
(* and reloaded, which builds a new entity that is then added (Startup).     *)

EditedMaxPositions == {50}

\* What the entity held when the options flow replaced it.
LiveState ==
    [hvac_mode |-> hvac_mode, window_open |-> window_open,
     current_temperature |-> current_temperature,
     target_temperature |-> target_temperature, states |-> trv_states]

\* async_step_edit_trv with new settings for valve t: the valve's record in
\* data[CONF_TRVS] is updated and the entry reloaded; async_setup_entry builds
\* a new TRVClimate from the entry, whose __init__ sets every field.
EditTrv(t, maxpos) ==
    /\ started
    /\ config_entry.data_trvs # None
    /\ config_entry' = [config_entry EXCEPT !.data_trvs =
            Some([Val(config_entry.data_trvs) EXCEPT ![t].max_valve_position = maxpos])]
    /\ trvs' = Val(setup_entry_trvs(config_entry'))
    /\ started' = FALSE
    /\ hvac_mode' = HEAT
    /\ saved_hvac_mode' = HEAT
    /\ window_open' = FALSE
    /\ current_temperature' = None
    /\ target_temperature' = DEFAULT_TARGET_TEMPERATURE
    /\ night_saving_enabled' = FALSE
    /\ night_schedule' = DEFAULT_NIGHT_SCHEDULE
    /\ trv_states' = [u \in TRV_IDS |->
                         [return_temp |-> None, return_temp_last_updated |-> None,
                          valve_position |-> 0, valve_control_active |-> FALSE]]
    /\ tasks' = <<>>
    /\ cmds' = <<>>
    /\ last' = Ran("edit_trv", [trv |-> t, before |-> LiveState])
    /\ temp_history' = <<>>
    /\ UNCHANGED <<valve_channel, hass_states, now>>

NextReload ==
    \/ \E rt \in RestoredTargets, rn \in RestoredNightSaving, room \in InitialRooms,
          returns \in InitialReturns, w \in InitialWindowStates :
          Startup(rt, rn, room, returns, w)
    \/ \E m \in {HEAT, OFF} : SetHvacMode(m)
    \/ \E c \in PositionCalls : SetValvePosition(c[1], c[2])
    \/ \E t \in TRV_IDS, m \in EditedMaxPositions : EditTrv(t, m)

SpecReload == Init /\ [][NextReload]_vars

-----------------------------------------------------------------------------
(* Properties *)

\* What the evaluation of valve t by the most recent handler saw.
Evaluated(t) == t \in last.evald
EvalRan(t) ==
    /\ Evaluated(t)
    /\ ~last.win
    /\ last.mode # OFF
    /\ trv_states[t].return_temp # None
ReturnTemp(t) == Val(trv_states[t].return_temp)
RoomKnown == current_temperature # None
RoomTemp == Val(current_temperature)
AdjustedTarget ==
    _get_adjusted_target_temperature(target_temperature, night_saving_enabled,
                                     _night_schedule, now)
PendingModeChange == \E i \in 1..Len(tasks) : tasks[i].type = "set_hvac_mode"
PositionCommandFor(t, c) ==
    c.trv = t /\ c.kind \in {"number.set_value", "mqtt.publish"}

\* C1: a control evaluation that runs with the window closed, the mode HEAT and
\* a known return temperature at or above the valve's close threshold leaves
\* the valve's recorded position at 0, whatever the room temperature, the
\* target and the previous position.
C1_ClosedAtThreshold ==
    \A t \in TRV_IDS :
        (EvalRan(t) /\ last.mode = HEAT
                    /\ ReturnTemp(t) >= trvs[t].return_temp_close)
            => trv_states[t].valve_position = 0

\* C1 witness: an evaluation at the threshold moved an open valve to 0.
C1_Witness ==
    \E t \in TRV_IDS :
        /\ EvalRan(t) /\ last.mode = HEAT
        /\ ReturnTemp(t) >= trvs[t].return_temp_close
        /\ trv_states[t].valve_control_active
        /\ trv_states[t].valve_position = 0
        /\ Len(cmds) = 1 /\ cmds[1].val = 0

\* C2 (as claimed): with the mode changed only by the window handling, once no
\* mode-change task is pending an open window means mode OFF with saved mode
\* HEAT, and a closed window means the mode is back at HEAT, for every
\* sequence of window notifications.
C2_WindowRestoresHeat ==
    ~PendingModeChange =>
        IF window_open THEN hvac_mode = OFF /\ saved_hvac_mode = HEAT
        ELSE hvac_mode = HEAT

\* C3 (as claimed): while the window is open and no mode-change task is
\* pending, the room mode is OFF.
C3_WindowOpenMeansOff ==
    (window_open /\ ~PendingModeChange) => hvac_mode = OFF

\* C4: set_hvac_mode(m) with m other than OFF while the window is open changes
\* neither the room mode nor any valve's state and sends no command.
C4_RejectedWhileWindowOpen ==
    [][(/\ last'.op \in {"set_hvac_mode", "task_set_hvac_mode"}
        /\ last'.arg # OFF
        /\ window_open)
       => (/\ hvac_mode' = hvac_mode
           /\ trv_states' = trv_states
           /\ cmds' = <<>>)]_vars

\* C4 witness: the user asked for HEAT with the window open and the mode OFF.
C4_Witness ==
    /\ last.op = "set_hvac_mode" /\ last.arg = HEAT
    /\ window_open
    /\ hvac_mode = OFF
    /\ cmds = <<>>

\* C5: a control evaluation that runs while the valve's return temperature is
\* unknown, the window is open or the mode is OFF changes neither the valve's
\* position nor its control-active flag and issues no position command.
C5_SkippedEvaluation ==
    [][\A t \in TRV_IDS :
         (/\ t \in last'.evald
          /\ \/ last'.win
             \/ last'.mode = OFF
             \/ trv_states'[t].return_temp = None)
         => (/\ trv_states'[t].valve_position = trv_states[t].valve_position
             /\ trv_states'[t].valve_control_active = trv_states[t].valve_control_active
             /\ \A i \in 1..Len(cmds') : ~PositionCommandFor(t, cmds'[i]))]_vars

\* C5 witness: a control task ran with the window open on a valve that is open
\* and whose return temperature is above its close threshold; it stayed open.
C5_Witness ==
    \E t \in TRV_IDS :
        /\ last.op = "task_control_valve" /\ Evaluated(t)
        /\ last.win
        /\ trv_states[t].return_temp # None
        /\ ReturnTemp(t) >= trvs[t].return_temp_close
        /\ trv_states[t].valve_position > 0

\* The maximum the proportional step of the evaluation of valve t worked with.
EffectiveMax(t) ==
    effective_max_valve(ReturnTemp(t), trvs[t].return_temp_close,
                        trvs[t].max_valve_position)

\* C6 (as claimed): for every max_valve_position in 0..100 the position a
\* control evaluation computes below the close threshold lies in
\* [0, effective_max], and effective_max is at most max_valve_position, in
\* the safe zone and in the buffer zone alike.
C6_WithinConfiguredMax ==
    \A t \in TRV_IDS :
        (EvalRan(t) /\ ReturnTemp(t) < trvs[t].return_temp_close)
            => /\ 0 <= trv_states[t].valve_position
               /\ trv_states[t].valve_position <= EffectiveMax(t)
               /\ EffectiveMax(t) <= trvs[t].max_valve_position

\* C7: every valve's recorded position is an integer in 0..100, after any
\* sequence of sensor events, evaluations, threshold edits and administrative
\* position calls within the service schema.
C7_PositionInRange ==
    \A t \in TRV_IDS : trv_states[t].valve_position \in 0..100

\* C7 witness: set_temperature drove a valve to 100 while another valve holds
\* a position strictly inside the range.
C7_Witness ==
    /\ last.op = "set_temperature"
    /\ \E t \in TRV_IDS : EvalRan(t) /\ trv_states[t].valve_position = 100
    /\ \E t \in TRV_IDS : trv_states[t].valve_position \in 1..99

\* C8: with a known room temperature, a return temperature below the close
\* threshold and (target - room) - anticipatory_offset <= 0, the position a
\* control evaluation leaves is 0.
C8_NoDemandMeansClosed ==
    \A t \in TRV_IDS :
        (/\ EvalRan(t)
         /\ RoomKnown
         /\ ReturnTemp(t) < trvs[t].return_temp_close
         /\ (AdjustedTarget - RoomTemp) - trvs[t].pid_anticipatory_offset <= 0)
        => trv_states[t].valve_position = 0

\* C8 witness: room at the target, demand cancelled by the offset alone, and
\* the evaluation closed a valve that was open.
C8_Witness ==
    \E t \in TRV_IDS :
        /\ EvalRan(t) /\ RoomKnown
        /\ ReturnTemp(t) < trvs[t].return_temp_close
        /\ AdjustedTarget - RoomTemp = 5
        /\ trvs[t].pid_anticipatory_offset = 5
        /\ trv_states[t].valve_control_active
        /\ trv_states[t].valve_position = 0

\* C9: for a fixed valve configuration and return temperature, a larger
\* (target - room) never gives a smaller position.
C9_Monotone ==
    \A t \in TRV_IDS :
        (trv_states[t].return_temp # None /\ RoomKnown) =>
            \A r2 \in ControlRooms, g2 \in ControlTargets :
                LET here == desired_position(ReturnTemp(t), current_temperature,
                                             target_temperature, trvs[t])
                    there == desired_position(ReturnTemp(t), Some(r2), g2, trvs[t])
                IN  /\ (target_temperature - RoomTemp <= g2 - r2) => here <= there
                    /\ (target_temperature - RoomTemp >= g2 - r2) => here >= there

\* C9 witness: an evaluation left a position strictly between 0 and the
\* maximum, and a larger difference gives a strictly larger one.
C9_Witness ==
    \E t \in TRV_IDS :
        /\ EvalRan(t) /\ RoomKnown
        /\ trv_states[t].valve_position > 0
        /\ trv_states[t].valve_position < EffectiveMax(t)
        /\ trv_states[t].valve_position =
               desired_position(ReturnTemp(t), current_temperature,
                                target_temperature, trvs[t])
        /\ \E r2 \in ControlRooms, g2 \in ControlTargets :
               /\ g2 - r2 > target_temperature - RoomTemp
               /\ desired_position(ReturnTemp(t), Some(r2), g2, trvs[t])
                      > trv_states[t].valve_position

\* The return reading of valve t is more than 60 minutes old.
ReturnStale(t) ==
    /\ trv_states[t].return_temp_last_updated # None
    /\ now - Val(trv_states[t].return_temp_last_updated) > 60

\* C10 (as claimed): a control evaluation whose return reading is older than
\* 60 minutes, with the room known and below target, leaves the valve at
\* max_valve_position.  Stated for configured maxima of at least 10, where
\* the floor of 10 of the buffer zone cannot exceed the maximum.
C10_FailsafeForcesOpen ==
    \A t \in TRV_IDS :
        (/\ EvalRan(t)
         /\ ReturnStale(t)
         /\ trvs[t].max_valve_position >= 10
         /\ RoomKnown
         /\ RoomTemp < AdjustedTarget)
        => trv_states[t].valve_position = trvs[t].max_valve_position

\* What the nudge of valve t reads about its actuator.
RunningStateReads(t, v) ==
    LET r == nudge_lookup(hass_states[t]).running_state
    IN  r # None /\ Lower(Val(r)) = v
HvacActionReads(t, v) ==
    /\ hass_states[t].climate # None
    /\ Val(hass_states[t].climate).hvac_action # None
    /\ Lower(Val(Val(hass_states[t].climate).hvac_action)) = v
NudgeSequence(t) == <<SelectOption(t, "internal"), SelectOption(t, "external")>>

\* C11 (as claimed): the nudge of a valve whose running state reads 'idle' and
\* whose sensor selection exists issues exactly the two selections 'internal'
\* then 'external'; the nudge of a valve whose running state reads 'heating'
\* issues no command at all.
C11_NudgeOnlyWhenIdle ==
    \A t \in TRV_IDS :
        (last.op = "nudge" /\ last.arg = t) =>
            /\ (RunningStateReads(t, "idle") /\ hass_states[t].sensor_select)
                   => cmds = NudgeSequence(t)
            /\ RunningStateReads(t, "heating") => cmds = <<>>

\* C11 (amended): as above, but a running state of 'heating' gives no command
\* only when the actuator's hvac_action does not read 'idle'.
C11_NudgeOnlyWhenIdleAmended ==
    \A t \in TRV_IDS :
        (last.op = "nudge" /\ last.arg = t) =>
            /\ (RunningStateReads(t, "idle") /\ hass_states[t].sensor_select)
                   => cmds = NudgeSequence(t)
            /\ (RunningStateReads(t, "heating") /\ ~HvacActionReads(t, "idle"))
                   => cmds = <<>>

\* C11 witness: a nudge found the running state 'idle' in the climate entity's
\* attribute (no running-state sensor) and issued the two selections.
C11_Witness ==
    \E t \in TRV_IDS :
        /\ last.op = "nudge" /\ last.arg = t
        /\ hass_states[t].running_state_sensor = ""
        /\ RunningStateReads(t, "idle")
        /\ hass_states[t].sensor_select
        /\ Len(cmds) = 2 /\ cmds[1].val = "internal" /\ cmds[2].val = "external"

\* C12 (as claimed): after a timer tick, every valve whose recorded position
\* is above 0 and whose actuator reports 'idle' (with the sensor selection
\* present) has been sent the nudge sequence, 'internal' then 'external'.
C12_TimerNudgesIdleValves ==
    last.op = "timer" =>
        \A t \in TRV_IDS :
            (/\ trv_states[t].valve_position > 0
             /\ RunningStateReads(t, "idle")
             /\ hass_states[t].sensor_select)
            => \E i, j \in 1..Len(cmds) :
                   /\ i < j
                   /\ cmds[i] = SelectOption(t, "internal")
                   /\ cmds[j] = SelectOption(t, "external")

\* C13: a control evaluation issues a position command for its valve only when
\* it changes the valve's recorded position, and an evaluation that directly
\* follows an evaluation of the same valve (same inputs) issues no command and
\* leaves every valve's state as it is.
C13_EvaluationIdempotent ==
    [][\A t \in TRV_IDS :
         (last'.op = "control_valve" /\ last'.arg = t) =>
            /\ (\E i \in 1..Len(cmds') : PositionCommandFor(t, cmds'[i]))
                   => trv_states'[t].valve_position # trv_states[t].valve_position
            /\ (last.op = "control_valve" /\ last.arg = t)
                   => (cmds' = <<>> /\ trv_states' = trv_states)]_vars

\* C13 witness: an evaluation ran on a valve that an earlier evaluation had
\* opened over the number entity, and sent nothing.
C13_Witness ==
    \E t \in TRV_IDS :
        /\ last.op = "control_valve" /\ last.arg = t
        /\ EvalRan(t)
        /\ valve_channel[t] = "number"
        /\ trv_states[t].valve_control_active
        /\ trv_states[t].valve_position > 0
        /\ cmds = <<>>

\* C14: when set_temperature(v) has returned, the stored target is v and, with
\* the mode HEAT, the window closed and a known return temperature, every
\* valve's recorded position is what the control algorithm gives for target v.
C14_SetTemperatureReevaluates ==
    last.op = "set_temperature" =>
        /\ target_temperature = last.arg
        /\ \A t \in TRV_IDS :
              (/\ hvac_mode = HEAT
               /\ ~window_open
               /\ trv_states[t].return_temp # None)
              => trv_states[t].valve_position =
                     desired_position(ReturnTemp(t), current_temperature,
                                      AdjustedTarget, trvs[t])

\* C14 witness: set_temperature(22.0) with both return temperatures known
\* moved a valve and left a position that is neither 0 nor the maximum.
C14_Witness ==
    /\ last.op = "set_temperature"
    /\ target_temperature = 220
    /\ hvac_mode = HEAT /\ ~window_open
    /\ \A t \in TRV_IDS : trv_states[t].return_temp # None
    /\ cmds # <<>>
    /\ \E t \in TRV_IDS : trv_states[t].valve_position \in 1..79

\* Today's entry of the entity's schedule and the time of day.
TodayEntry == night_schedule[TodayName(now)]
NightHour == TimeOfDay(now)

SetbackActive ==
    /\ night_saving_enabled
    /\ TodayEntry.enabled
    /\ IF TodayEntry.start_time < TodayEntry.end_time
       THEN TodayEntry.start_time <= NightHour /\ NightHour <= TodayEntry.end_time
       ELSE NightHour >= TodayEntry.start_time \/ NightHour <= TodayEntry.end_time

\* clamp(target + limited reduction, 5, 30) with the reduction limited to [-5, 5].
ClampedSetbackTarget ==
    LET reduction == Max2(-50, Min2(50, TodayEntry.temp_reduction))
    IN  Max2(50, Min2(300, target_temperature + reduction))

ValveTodayEntry(t) == trvs[t].night_schedule[TodayName(now)]
ValveSetbackActive(t) ==
    /\ ValveTodayEntry(t).enabled
    /\ IF ValveTodayEntry(t).start_time < ValveTodayEntry(t).end_time
       THEN /\ ValveTodayEntry(t).start_time <= NightHour
            /\ NightHour <= ValveTodayEntry(t).end_time
       ELSE \/ NightHour >= ValveTodayEntry(t).start_time
            \/ NightHour <= ValveTodayEntry(t).end_time

\* C17 (as claimed): when the schedule configured for a valve has today's
\* entry enabled and the time is inside its window, the valve's control
\* evaluation works with the night-adjusted target.  Stated with the night
\* feature on and the entity's own schedule as constructed.
C17_ValveScheduleFollowed ==
    \A t \in TRV_IDS :
        (/\ last.op = "control_valve" /\ EvalRan(t)
         /\ night_saving_enabled
         /\ night_schedule = DEFAULT_NIGHT_SCHEDULE
         /\ ValveSetbackActive(t))
        => trv_states[t].valve_position =
               desired_position(ReturnTemp(t), current_temperature,
                   Max2(50, Min2(300, target_temperature
                                          + ValveTodayEntry(t).temp_reduction)),
                   trvs[t])

\* The most recent handler was a threshold call on a valve of the room that
\* supplied at least one value.
ThresholdsSupplied ==
    /\ last.op = "set_trv_thresholds"
    /\ ~last.arg.not_found
    /\ \E i \in 1..3 : last.arg.args[i] # None

\* cfg holds every value the most recent threshold call supplied.
HoldsSuppliedThresholds(cfg) ==
    /\ last.arg.args[1] # None => cfg.return_temp_close = Val(last.arg.args[1])
    /\ last.arg.args[2] # None => cfg.return_temp_open = Val(last.arg.args[2])
    /\ last.arg.args[3] # None => cfg.max_valve_position = Val(last.arg.args[3])

\* C18 (as claimed): after a threshold call on a known valve with at least one
\* value supplied, the values are in the valve's in-memory configuration, in
\* the persisted configuration a setup of the entry builds the room from, and
\* the valve has been evaluated with them.
C18_ThresholdsPersisted ==
    ThresholdsSupplied =>
        LET t == last.arg.trv
        IN  /\ HoldsSuppliedThresholds(trvs[t])
            /\ setup_entry_trvs(config_entry) # None
            /\ HoldsSuppliedThresholds(Val(setup_entry_trvs(config_entry))[t])
            /\ Evaluated(t)
            /\ EvalRan(t) =>
                   trv_states[t].valve_position =
                       desired_position(ReturnTemp(t), current_temperature,
                                        target_temperature, trvs[t])

\* The handler that just ran was an administrative call naming a valve that
\* is not a valve of the room.
UnknownValveCall(l) ==
    /\ l.op \in {"set_valve_position", "set_trv_thresholds"}
    /\ l.arg.trv \notin TRV_IDS

\* C19: an administrative position or threshold call that names a valve the
\* room does not have is reported as not found, and leaves the valve states,
\* the valve configurations and the persisted configuration as they were and
\* sends no actuator command.
C19_UnknownValveChangesNothing ==
    [][UnknownValveCall(last') =>
          /\ last'.arg.not_found
          /\ trv_states' = trv_states
          /\ trvs' = trvs
          /\ config_entry' = config_entry
          /\ cmds' = <<>>]_vars

\* A threshold call with a value supplied named an unknown valve, after an
\* earlier call had changed the configuration of a valve of the room.
C19_Witness ==
    /\ UnknownValveCall(last)
    /\ last.op = "set_trv_thresholds"
    /\ last.arg.args[3] = Some(50)
    /\ last.arg.not_found
    /\ trvs[TRV_LIST[1]].return_temp_close = 300
    /\ trvs[TRV_LIST[1]].max_valve_position = DEFAULT_MAX_VALVE_POSITION
    /\ cmds = <<>>

\* The target the status is computed for.
StatusTarget == IF SetbackActive THEN ClampedSetbackTarget ELSE target_temperature
TargetReached ==
    /\ ~window_open /\ hvac_mode # OFF /\ RoomKnown
    /\ Val(current_temperature) >= StatusTarget

\* The status of a room whose target is unknown, for every combination of the
\* other inputs.
NoTargetPriority ==
    \A win \in BOOLEAN, mode \in {HEAT, OFF}, room \in {None, Some(190)}, na \in BOOLEAN :
        LET status == _determine_heating_status(win, mode, room, None, na)
        IN  /\ win => status = "window_open"
            /\ (~win /\ mode = OFF) => status = "off"
            /\ (~win /\ mode # OFF /\ room = None) => status = "no_sensor"
            /\ (~win /\ mode # OFF /\ room # None) => status = "no_target"

\* The priority of the statuses, with reached the status of a room at or above
\* its target.
StatusPriority(reached) ==
    /\ window_open => last.arg = "window_open"
    /\ (~window_open /\ hvac_mode = OFF) => last.arg = "off"
    /\ (~window_open /\ hvac_mode # OFF /\ ~RoomKnown) => last.arg = "no_sensor"
    /\ TargetReached => last.arg = reached
    /\ (~window_open /\ hvac_mode # OFF /\ RoomKnown /\ ~TargetReached)
           => last.arg = "heating"
    /\ NoTargetPriority

TrvStatus(t) ==
    _determine_trv_status_with_reason(hvac_mode, window_open, current_temperature,
        Some(_get_adjusted_target_temperature(target_temperature, night_saving_enabled,
                                              _night_schedule, now)),
        trv_states[t].return_temp, trvs[t])

\* C21 (as claimed): whenever the window is open, every valve's reported
\* status is window_open with a reason naming the window, whatever the mode,
\* the return temperature and the room and target temperatures are.
C21_WindowOpenValveStatus ==
    (started /\ window_open) =>
        \A t \in TRV_IDS : /\ TrvStatus(t).status = "window_open"
                           /\ TrvStatus(t).reason = "window"

\* The most recent handler was a set_hvac_mode call that was not refused.
AcceptedModeCall ==
    /\ last.op \in {"set_hvac_mode", "task_set_hvac_mode"}
    /\ (last.arg = OFF \/ ~window_open)

\* C22: an accepted set_hvac_mode(mode) leaves the room in that mode and sends
\* exactly one set-HVAC-mode command carrying the mode to each configured
\* valve, in configuration order.
C22_ModeForwardedToEveryValve ==
    AcceptedModeCall =>
        /\ hvac_mode = last.arg
        /\ Len(cmds) = Len(TRV_LIST)
        /\ \A i \in 1..Len(TRV_LIST) :
              cmds[i] = [kind |-> "climate.set_hvac_mode", trv |-> TRV_LIST[i],
                         val |-> last.arg]

\* The user set the room to HEAT with the window closed and both valves were
\* told, the first configured valve first.
C22_Witness ==
    /\ last.op = "set_hvac_mode" /\ last.arg = HEAT
    /\ ~window_open
    /\ hvac_mode = HEAT
    /\ Len(cmds) = 2
    /\ cmds[1].trv = TRV_LIST[1] /\ cmds[2].trv = TRV_LIST[2]
    /\ cmds[1].val = HEAT /\ cmds[2].val = HEAT

\* The handlers that act on one valve, and the valve they act on.
SingleValveOps == {"control_valve", "task_control_valve", "set_valve_position",
                   "set_trv_thresholds"}
ValveOf(l) == IF l.op \in {"control_valve", "task_control_valve"} THEN l.arg ELSE l.arg.trv
RoomState == <<hvac_mode, saved_hvac_mode, window_open, current_temperature,
               target_temperature, night_saving_enabled, night_schedule>>

\* C23: a control evaluation or a position command for one valve, delivered or
\* not, changes no other valve's state (return temperature, commanded
\* position, control-active flag) and nothing of the room's state.
C23_ValvesIndependent ==
    [][last'.op \in SingleValveOps =>
          /\ \A u \in TRV_IDS \ {ValveOf(last')} : trv_states'[u] = trv_states[u]
          /\ RoomState' = RoomState]_vars

\* A position was recorded for the first valve while its actuator could not be
\* reached, and the second valve kept the position it had been given.
C23_Witness ==
    /\ last.op \in {"set_valve_position", "set_trv_thresholds"}
    /\ last.arg.trv = TRV_LIST[1]
    /\ valve_channel[TRV_LIST[1]] = "none"
    /\ cmds = <<>>
    /\ trv_states[TRV_LIST[1]].valve_position = 0
    /\ trv_states[TRV_LIST[2]].valve_position = 100

\* The new entity has been added after an edit and found the sensors and the
\* restored target as the replaced entity had them.
AddedWithSameReadings ==
    /\ last.op = "edit_trv"
    /\ last'.op = "startup"
    /\ current_temperature' = last.arg.before.current_temperature
    /\ window_open' = last.arg.before.window_open
    /\ target_temperature' = last.arg.before.target_temperature
    /\ \A u \in TRV_IDS :
          trv_states'[u].return_temp = last.arg.before.states[u].return_temp

\* C24 (as claimed): editing one valve's configuration leaves the room's live
\* state and the state of every other valve unchanged.  Stated for the
\* entity as it is once the edit has been applied, in the case where the
\* sensors read what they read before: the HVAC mode is the one the room had
\* and every other valve has the commanded position and control-active flag it
\* had.
C24_EditKeepsLiveState ==
    [][AddedWithSameReadings =>
          /\ hvac_mode' = last.arg.before.hvac_mode
          /\ \A u \in TRV_IDS \ {last.arg.trv} :
                trv_states'[u] = last.arg.before.states[u]]_vars

\* The sensor states that are not numbers: everything but decimal numerals.
NumeralTexts == {<<"2", "0", ".", "5">>, <<"3", "3">>}
NotNumeric(text) == text \notin NumeralTexts

\* What a temperature notification may store or spawn.
StoredReadings ==
    <<current_temperature, temp_history, trv_states, tasks>>

\* C25 (as claimed): a room-temperature or return-temperature notification
\* whose value is not numeric leaves the stored temperatures, timestamps,
\* history and valve positions unchanged and spawns no evaluation and no
\* forward to the valves.
C25_NonNumericIgnored ==
    [][(\/ \E text \in RoomSensorTexts :
              NotNumeric(text) /\ RoomSensorStateChanged(text)
        \/ \E e \in ReturnSensorEvents :
              NotNumeric(e[2]) /\ ReturnSensorStateChanged(e[1], e[2]))
       => (StoredReadings' = StoredReadings /\ cmds' = <<>>)]_vars

\* Command i of the most recent handler carries a room temperature to valve t.
IsValueCommand(i, t) ==
    /\ cmds[i].trv = t
    /\ cmds[i].kind \in {"external_temperature.number", "external_temperature.mqtt"}
IsExternalSwitch(i, t) ==
    /\ cmds[i].trv = t
    /\ cmds[i].kind \in {"sensor_select.select", "sensor_select.mqtt"}
    /\ cmds[i].val = "external"

\* C26 (as claimed): for each valve and each forward of a room temperature,
\* the command that switches the sensor source to external is issued before
\* the command that carries the value; the value is never sent first.
C26_ExternalBeforeValue ==
    last.op = "send_room_temperature_to_all" =>
        \A t \in TRV_IDS : \A j \in 1..Len(cmds) :
            IsValueCommand(j, t) => \E i \in 1..(j - 1) : IsExternalSwitch(i, t)

\* No position command for valve t is in flight.
NothingInFlight(t) == \A i \in 1..Len(tasks) : tasks[i].arg # t

\* C27 (as claimed): once every in-flight position command of a valve has
\* completed, the last one delivered to the actuator carries the valve's
\* recorded commanded position, under every interleaving of evaluations and
\* administrative position calls.
C27_LastDeliveredIsRecorded ==
    (last.op = "deliver_position" /\ NothingInFlight(last.arg.trv)) =>
        last.arg.position = trv_states[last.arg.trv].valve_position

\* C28 (as claimed): once every forward and timer refresh has run to its
\* end, the external room temperature delivered last is the room's current
\* temperature, under every interleaving of the two.
C28_LastForwardIsCurrent ==
    (last.op = "forward_value" /\ tasks = <<>>) =>
        Some(last.arg.temperature) = current_temperature

\* The room-temperature handler has just appended a sample.
SampleAppended == last'.op = "room_temperature" /\ current_temperature' # current_temperature

\* C29: the temperature history never holds more than 30 samples; appending
\* to a full history evicts exactly the oldest sample, and the remaining
\* samples keep their insertion order with the new sample last.
C29_HistoryBounded ==
    /\ Len(temp_history) <= DEFAULT_TEMP_HISTORY_SIZE
    /\ [][/\ Len(temp_history') <= DEFAULT_TEMP_HISTORY_SIZE
          /\ SampleAppended =>
               LET new == Sample(now, Val(current_temperature'))
               IN  IF Len(temp_history) = DEFAULT_TEMP_HISTORY_SIZE
                   THEN temp_history' = Append(Tail(temp_history), new)
                   ELSE temp_history' = Append(temp_history, new)]_vars

\* A full history whose oldest sample is no longer the reading taken at
\* start: the handler appended to a full history and evicted.
C29_Witness ==
    /\ last.op = "room_temperature"
    /\ Len(temp_history) = DEFAULT_TEMP_HISTORY_SIZE
    /\ temp_history[1].time > 0

\* C30: the heating-rate estimate is 0 when the history holds fewer than 2
\* samples or no time has passed between the first and the last of the most
\* recent min(10, n) samples; otherwise it is the temperature difference of
\* those two samples divided by the time between them in hours.
C30_HeatingRate ==
    last.op = "calculate_heating_rate" =>
        LET n == Len(temp_history)
            k == IF n < 10 THEN n ELSE 10
            elapsed == temp_history[n].time - temp_history[n - k + 1].time
            change == temp_history[n].temp - temp_history[n - k + 1].temp
        IN  IF n < 2 \/ elapsed <= 0 THEN last.arg.num = 0
            ELSE last.arg.num * elapsed = 60 * change * last.arg.den

\* A non-zero rate computed from a history of more than 10 samples whose
\* oldest sample is older than the oldest of the 10 most recent ones.
C30_Witness ==
    /\ last.op = "calculate_heating_rate"
    /\ last.arg.num # 0
    /\ Len(temp_history) > 10
    /\ temp_history[1].time < temp_history[Len(temp_history) - 9].time

\* C31 (as claimed): after any sequence of set_target_temperature calls and
\* restores of the stored target at startup, the room target temperature
\* lies in [5, 30].
C31_TargetInRange ==
    MIN_TEMP <= target_temperature /\ target_temperature <= MAX_TEMP

\* C32 (as claimed): the room mode is HEAT or OFF in every reachable state,
\* whatever mode the actuators' own state notifications carry.
C32_ModeHeatOrOff == hvac_mode \in {HEAT, OFF}

\* C33 (as claimed): the nudge of a valve whose actuator state reads 'idle'
\* sends exactly two set-temperature commands to that valve, the first with
\* target + 0.5 and the second with the target.
C33_NudgeSendsTargetTwice ==
    \A t \in TRV_IDS :
        (last.op = "nudge" /\ last.arg = t /\ RunningStateReads(t, "idle")) =>
            LET IsSetTemperature(c) == c.kind = "climate.set_temperature"
            IN  SelectSeq(cmds, IsSetTemperature)
                    = <<[kind |-> "climate.set_temperature", trv |-> t,
                         val |-> target_temperature + 5],
                        [kind |-> "climate.set_temperature", trv |-> t,
                         val |-> target_temperature]>>

\* Valve t was evaluated in the safe zone with the room known and a demand
\* of at least the proportional band.
FullDemandInSafeZone(t) ==
    /\ EvalRan(t)
    /\ RoomKnown
    /\ ReturnTemp(t) < trvs[t].return_temp_close - TEMP_BUFFER
    /\ (AdjustedTarget - RoomTemp) - trvs[t].pid_anticipatory_offset
           >= trvs[t].proportional_band

\* C34 (as claimed): in the safe zone with known room and target, a demand of
\* at least the proportional band leaves the valve at max_valve_position, for
\* every max_valve_position in 0..100.
C34_FullDemandOpensToMax ==
    \A t \in TRV_IDS :
        FullDemandInSafeZone(t) =>
            trv_states[t].valve_position = trvs[t].max_valve_position

\* C34 (amended): as above for a max_valve_position of 0 or of at least 10; a
\* max_valve_position in 1..9 falls in the dead-band and the valve is left at 0.
C34_FullDemandOpensToMaxAmended ==
    \A t \in TRV_IDS :
        FullDemandInSafeZone(t) =>
            trv_states[t].valve_position =
                IF trvs[t].max_valve_position < DEAD_BAND THEN 0
                ELSE trvs[t].max_valve_position

\* C34 witness: an evaluation with more demand than the band moved a valve
\* with a configured maximum of 50 to exactly 50.
C34_Witness ==
    \E t \in TRV_IDS :
        /\ FullDemandInSafeZone(t)
        /\ (AdjustedTarget - RoomTemp) - trvs[t].pid_anticipatory_offset
               > trvs[t].proportional_band
        /\ trvs[t].max_valve_position = 50
        /\ trv_states[t].valve_control_active
        /\ trv_states[t].valve_position = 50

\* C35 (as claimed): every position a control evaluation commands, in the
\* proportional branch and in the fallback without a room temperature alike,
\* is 0 or at least 10.
C35_DeadBand ==
    \A t \in TRV_IDS :
        (last.op = "control_valve" /\ EvalRan(t)) =>
            \A i \in 1..Len(cmds) :
                PositionCommandFor(t, cmds[i]) => cmds[i].val \notin 1..(DEAD_BAND - 1)

\* The recorded position and the control-active flag of every valve.
ValveControlState ==
    [t \in TRV_IDS |-> <<trv_states[t].valve_position, trv_states[t].valve_control_active>>]

\* C36: a room-temperature notification, the forward it spawns and a timer
\* tick never change any valve's recorded position or control-active flag,
\* even when the room has risen above the target with valves open.
C36_RoomAndTimerLeaveValves ==
    [][last'.op \in {"room_temperature", "task_send_room_temperature", "timer"}
           => ValveControlState' = ValveControlState]_vars

\* C36 witness: the room sensor reported a temperature above the target while
\* a valve that an evaluation would now close is still open.
C36_Witness ==
    /\ last.op = "room_temperature"
    /\ RoomKnown /\ RoomTemp > AdjustedTarget
    /\ \E t \in TRV_IDS :
          /\ trv_states[t].valve_position > 0
          /\ trv_states[t].return_temp # None
          /\ desired_position(ReturnTemp(t), current_temperature, AdjustedTarget,
                              trvs[t]) = 0

\* C37 (as claimed): a startup that finds the window sensor reporting open
\* commands no valve to a position other than 0.
C37_StartupWindowOpenKeepsClosed ==
    (last.op = "startup" /\ window_open) =>
        \A t \in TRV_IDS, i \in 1..Len(cmds) :
            PositionCommandFor(t, cmds[i]) => cmds[i].val = 0

\* C38 (as claimed): a window-sensor notification whose state is neither an
\* open nor a closed value leaves the window-open flag, the saved mode and
\* the mode unchanged and spawns no restore of heating.
C38_UnreadableWindowIgnored ==
    [][(last'.op = "window" /\ last'.arg \in {"unavailable", "unknown"})
           => UNCHANGED <<window_open, saved_hvac_mode, hvac_mode, tasks>>]_vars

\* C39 (as claimed): a control evaluation that hands no set-position command
\* to an actuator channel leaves every valve's recorded position at its
\* previous value.
C39_UndeliveredKeepsRecorded ==
    [][(last'.op = "control_valve" /\ cmds' = <<>>)
           => \A t \in TRV_IDS :
                  trv_states'[t].valve_position = trv_states[t].valve_position]_vars

\* C40 (as claimed): set_night_saving stores the supplied values, with
\* temp_reduction clamped to [-5, 5], re-evaluates every valve and returns
\* without raising, for every combination of supplied and omitted arguments.
C40_NightSavingReturns ==
    last.op = "set_night_saving" =>
        /\ last.arg.result.raised = ""
        /\ last.evald = TRV_IDS
        /\ last.arg.call.enabled # None => night_saving_enabled = Val(last.arg.call.enabled)
        /\ last.arg.call.temp_reduction # None =>
               Val(last.arg.result.temp_reduction) \in -50..50

====
